---------------------------- MODULE Spec2Model ----------------------------
(***************************************************************************)
(* A model of zim-mcp (src/zim_mcp): the LRU cache of utils.py, the path   *)
(* sandbox of utils.py, the archive registry of zim_manager.py, the search *)
(* engine of search_engine.py and the file utilities of file_discovery.py. *)
(*                                                                         *)
(* Python values are modelled as follows.  A dict is a function over its   *)
(* key set, a list is a sequence, Optional[x] is << >> (None) or <<x>>.    *)
(* A method is an operator from the object's fields (a record, "self") to  *)
(* a record holding the new fields, the returned value and the exception   *)
(* that left the method ("none" when it returned).                         *)
(***************************************************************************)
EXTENDS Integers, Sequences, FiniteSets, TLC

VARIABLES
    \* ---- a stand-alone LRUCache and its observer (SpecCache)
    lru,        \* the fields of one LRUCache: max_size, cache, access_order
    stamp,      \* observer: stamp[k] = time of the last get-hit or put of k
    clock,      \* observer: number of operations performed so far
    op,         \* observer: the last operation, its arguments and outcome
    run,        \* observer: the keys put, one after the other, since the
                \* cache was last constructed or cleared (<<0>>: broken run)
    threads     \* the callers that run get and put on the cache statement by
                \* statement: each one's position, arguments and locals

VARIABLES
    \* ---- one caller of validate_zim_file_path (SpecPath)
    base_directory,   \* the configured root, a Path
    file_path,        \* the name last passed to validate_zim_file_path
    validated         \* what that call returned or raised

VARIABLES
    \* ---- the server: a ZimManager, a SearchEngine, a FileDiscovery
    archive_cache,    \* ZimManager.archive_cache, an LRUCache of handles
    file_info_cache,  \* ZimManager.file_info_cache
    available_files,  \* ZimManager._available_files
    searcher_cache,   \* SearchEngine.searcher_cache
    search_cache,     \* SearchEngine.search_cache, an LRUCache of result lists
    call,             \* observer: the last call, its outcome and its events
    memo,             \* observer: for each argument tuple of search_multiple_zim
                      \* whose cache entry is live, the list the call returned
    page              \* a client that fetches a result list page after page

VARIABLES
    \* ---- one call of browse_entries_by_pattern, draw by draw
    browse      \* its position, arguments and locals (count, results) and the
                \* number of random draws made so far

VARIABLES
    \* ---- the world outside the program
    indexed,    \* the archives that hold a full-text index
    removed     \* the files deleted from the disk since the server started

VARIABLES
    \* ---- the FileDiscovery and the clock it reads
    last_scan_time,   \* FileDiscovery._last_scan_time
    now,              \* time.time(), in seconds
    listing           \* the *.zim files under the root in the order the
                      \* directory yields them, the same while it is unchanged

VARIABLES
    \* ---- the callers that run get_archive at the same time
    callers     \* each one's position, argument and locals

cacheVars == <<lru, stamp, clock, op, run, threads>>
pathVars == <<base_directory, file_path, validated>>
sysVars == <<archive_cache, file_info_cache, available_files, searcher_cache,
             search_cache, call, memo, page>>
worldVars == <<indexed, removed>>
discoveryVars == <<last_scan_time, now, listing>>
vars == <<cacheVars, pathVars, sysVars, worldVars, browse, discoveryVars, callers>>

----------------------------------------------------------------------------
(* Bounds of the model. *)

MaxCap  == 2      \* capacities 0..MaxCap of the stand-alone cache
NKeys   == 3      \* keys 1..NKeys of the stand-alone cache
MaxOps  == 5      \* operations performed on the stand-alone cache

MaxParts == 3     \* components of a name passed to validate_zim_file_path

Keys   == 1..NKeys
Values == {"v", "w"}

----------------------------------------------------------------------------
(* Python helpers. *)

None == << >>
Some(x) == <<x>>

\* x = value; the statements that follow
Let(value, Rest(_)) == Rest(value)

EmptyDict == [k \in {} |-> TRUE]

\* d[key] = value
DictSet(d, key, value) ==
    [k \in (DOMAIN d) \cup {key} |-> IF k = key THEN value ELSE d[k]]

\* del d[key]
DictDel(d, key) == [k \in (DOMAIN d) \ {key} |-> d[k]]

Range(s) == {s[i] : i \in DOMAIN s}

\* list.remove(x): removes the first occurrence of x
RECURSIVE ListRemove(_, _)
ListRemove(s, x) ==
    IF s = << >> THEN << >>
    ELSE IF Head(s) = x THEN Tail(s)
    ELSE <<Head(s)>> \o ListRemove(Tail(s), x)

----------------------------------------------------------------------------
(* pathlib, as utils.validate_zim_file_path uses it.  A Path is a record:  *)
(* abs (is_absolute) and parts, the components after the anchor.  The file *)
(* system is a tree with symbolic links; a link is at a canonical place    *)
(* and names a canonical directory.                                        *)

MkPath(abs, parts) == [abs |-> abs, parts |-> parts]

Components == {"..", "srv", "etc", "zim", "ln", "a.zim"}

\* /srv/ln is a link to /etc, /data is a link to /srv
Symlinks == (<<"srv", "ln">> :> <<"etc">>) @@ (<<"data">> :> <<"srv">>)

\* the process's working directory, used by resolve() for a relative path
Cwd == <<"srv">>

Parent(parts) ==
    IF parts = << >> THEN << >> ELSE SubSeq(parts, 1, Len(parts) - 1)

\* base / other
PathJoin(base, other) ==
    IF other.abs THEN other
    ELSE MkPath(base.abs, base.parts \o other.parts)

\* Path.resolve(): walks the components from the anchor, ".." steps to the
\* parent of the place reached (the root is its own parent), a link is
\* followed where it is met.
RECURSIVE Walk(_, _)
Walk(at, todo) ==
    IF todo = << >> THEN at
    ELSE LET c == Head(todo)
             next == IF c = ".." THEN Parent(at) ELSE Append(at, c)
         IN  Walk(IF next \in DOMAIN Symlinks THEN Symlinks[next] ELSE next,
                  Tail(todo))

PathResolve(path) ==
    MkPath(TRUE, Walk(<< >>, IF path.abs THEN path.parts ELSE Cwd \o path.parts))

\* PurePath.relative_to(base) raises ValueError unless base's parts begin
\* the path's parts
RelativeToRaises(path, base) ==
    \/ path.abs # base.abs
    \/ Len(path.parts) < Len(base.parts)
    \/ SubSeq(path.parts, 1, Len(base.parts)) # base.parts

----------------------------------------------------------------------------
(* utils.py: validate_zim_file_path *)

\* The check made on the joined path as written, before resolve().
validate_zim_file_path_lexical(name, base) ==
    LET joined == IF ~name.abs THEN PathJoin(base, name) ELSE name
        resolved_path == PathResolve(joined)
    IN  IF RelativeToRaises(joined, base)
        THEN [ret |-> None, exc |-> "ValueError"]
        ELSE [ret |-> Some(resolved_path), exc |-> "none"]

validate_zim_file_path(name, base) ==
    LET joined == IF ~name.abs THEN PathJoin(base, name) ELSE name
        resolved_path == PathResolve(joined)
        base_resolved == PathResolve(base)
    IN  IF RelativeToRaises(resolved_path, base_resolved)
        THEN [ret |-> None, exc |-> "ValueError"]
        ELSE [ret |-> Some(resolved_path), exc |-> "none"]

NotCalled == [ret |-> None, exc |-> "notcalled"]

----------------------------------------------------------------------------
(* utils.py: class LRUCache *)

LRUCache_init(max_size) ==
    [max_size |-> max_size, cache |-> EmptyDict, access_order |-> << >>]

\* get that returns the value without touching access_order.
LRUCache_get_norefresh(self, key) ==
    IF key \in DOMAIN self.cache
    THEN [self |-> self, ret |-> Some(self.cache[key])]
    ELSE [self |-> self, ret |-> None]

LRUCache_get(self, key) ==
    IF key \in DOMAIN self.cache
    THEN [self |-> [self EXCEPT !.access_order =
                        Append(ListRemove(self.access_order, key), key)],
          ret  |-> Some(self.cache[key])]
    ELSE [self |-> self, ret |-> None]

\* The branch of put for a key that is not cached, without the eviction.
LRUCache_put_noevict(self, key, value) ==
    IF key \in DOMAIN self.cache
    THEN [self |-> [self EXCEPT !.cache = DictSet(self.cache, key, value),
                                !.access_order =
                                    Append(ListRemove(self.access_order, key), key)],
          exc  |-> "none"]
    ELSE [self |-> [self EXCEPT !.cache = DictSet(self.cache, key, value),
                                !.access_order = Append(self.access_order, key)],
          exc  |-> "none"]

\* put that evicts the most recently used key instead of the least.
LRUCache_put_mru(self, key, value) ==
    IF key \in DOMAIN self.cache
    THEN [self |-> [self EXCEPT !.cache = DictSet(self.cache, key, value),
                                !.access_order =
                                    Append(ListRemove(self.access_order, key), key)],
          exc  |-> "none"]
    ELSE IF Cardinality(DOMAIN self.cache) >= self.max_size
    THEN IF self.access_order = << >>
         THEN [self |-> self, exc |-> "IndexError"]
         ELSE LET n == Len(self.access_order)
                  newest == self.access_order[n]
                  rest == SubSeq(self.access_order, 1, n - 1)
              IN  [self |-> [self EXCEPT
                        !.cache = DictSet(DictDel(self.cache, newest), key, value),
                        !.access_order = Append(rest, key)],
                   exc  |-> "none"]
    ELSE [self |-> [self EXCEPT !.cache = DictSet(self.cache, key, value),
                                !.access_order = Append(self.access_order, key)],
          exc  |-> "none"]

\* put that treats a cached key as a new one: a full cache evicts for it.
LRUCache_put_asnew(self, key, value) ==
    IF key \in DOMAIN self.cache /\ Cardinality(DOMAIN self.cache) >= self.max_size
    THEN [self |-> [self EXCEPT
                !.cache = DictSet(DictDel(self.cache, Head(self.access_order)),
                                  key, value),
                !.access_order =
                    Append(ListRemove(Tail(self.access_order), key), key)],
          exc  |-> "none"]
    ELSE
        IF key \in DOMAIN self.cache
        THEN \* Update existing
             [self |-> [self EXCEPT !.cache = DictSet(self.cache, key, value),
                                    !.access_order =
                                        Append(ListRemove(self.access_order, key), key)],
              exc  |-> "none"]
        ELSE \* Add new
             IF Cardinality(DOMAIN self.cache) >= self.max_size
             THEN \* access_order.pop(0) raises IndexError on an empty list,
                  \* before anything is changed
                  IF self.access_order = << >>
                  THEN [self |-> self, exc |-> "IndexError"]
                  ELSE LET oldest_key == Head(self.access_order)
                       IN  [self |-> [self EXCEPT
                                !.cache = DictSet(DictDel(self.cache, oldest_key), key, value),
                                !.access_order = Append(Tail(self.access_order), key)],
                            exc  |-> "none"]
             ELSE [self |-> [self EXCEPT !.cache = DictSet(self.cache, key, value),
                                         !.access_order = Append(self.access_order, key)],
                   exc  |-> "none"]

LRUCache_put(self, key, value) ==
    IF key \in DOMAIN self.cache
    THEN \* Update existing
         [self |-> [self EXCEPT !.cache = DictSet(self.cache, key, value),
                                !.access_order =
                                    Append(ListRemove(self.access_order, key), key)],
          exc  |-> "none"]
    ELSE \* Add new
         IF Cardinality(DOMAIN self.cache) >= self.max_size
         THEN \* access_order.pop(0) raises IndexError on an empty list,
              \* before anything is changed
              IF self.access_order = << >>
              THEN [self |-> self, exc |-> "IndexError"]
              ELSE LET oldest_key == Head(self.access_order)
                   IN  [self |-> [self EXCEPT
                            !.cache = DictSet(DictDel(self.cache, oldest_key), key, value),
                            !.access_order = Append(Tail(self.access_order), key)],
                        exc  |-> "none"]
         ELSE [self |-> [self EXCEPT !.cache = DictSet(self.cache, key, value),
                                     !.access_order = Append(self.access_order, key)],
               exc  |-> "none"]

\* clear that forgets the values and keeps the recency list.
LRUCache_clear_partial(self) ==
    [self EXCEPT !.cache = EmptyDict]

LRUCache_clear(self) ==
    [self EXCEPT !.cache = EmptyDict, !.access_order = << >>]

LRUCache_size(self) == Cardinality(DOMAIN self.cache)

----------------------------------------------------------------------------
(* Python str.  A string is a sequence of tokens; a token is a run of     *)
(* characters that the model never splits ("a.zim", "..", "/", ",", "|",   *)
(* " ", a digit).  Joining, stripping, formatting and sorting work on the  *)
(* token sequences as the Python operations work on the characters.        *)

\* the order of the tokens' first characters
TokenRank ==
    (" " :> 0) @@ ("," :> 1) @@ (".." :> 2) @@ ("/" :> 3) @@
    ("0" :> 10) @@ ("1" :> 11) @@ ("2" :> 12) @@ ("3" :> 13) @@ ("4" :> 14) @@
    ("5" :> 15) @@ ("6" :> 16) @@ ("7" :> 17) @@ ("8" :> 18) @@ ("9" :> 19) @@
    ("a.zim" :> 30) @@ ("b.zim" :> 31) @@ ("c.zim" :> 32) @@ ("etc" :> 33) @@
    ("no.zim" :> 34) @@ ("q" :> 35) @@ ("x.zim" :> 36) @@ ("zim" :> 37) @@
    ("|" :> 50)

\* a < b for str
RECURSIVE StrLess(_, _)
StrLess(a, b) ==
    IF a = << >> THEN b # << >>
    ELSE IF b = << >> THEN FALSE
    ELSE IF Head(a) = Head(b) THEN StrLess(Tail(a), Tail(b))
    ELSE TokenRank[Head(a)] < TokenRank[Head(b)]

\* sep.join(list)
RECURSIVE StrJoin(_, _)
StrJoin(sep, list) ==
    IF list = << >> THEN << >>
    ELSE IF Len(list) = 1 THEN Head(list)
    ELSE Head(list) \o sep \o StrJoin(sep, Tail(list))

\* str.strip()
RECURSIVE LStrip(_)
LStrip(s) == IF s # << >> /\ Head(s) = " " THEN LStrip(Tail(s)) ELSE s

RECURSIVE RStrip(_)
RStrip(s) ==
    IF s # << >> /\ s[Len(s)] = " " THEN RStrip(SubSeq(s, 1, Len(s) - 1)) ELSE s

StrStrip(s) == RStrip(LStrip(s))

\* str(n) for an int n >= 0
Digit(d) == CASE d = 0 -> "0" [] d = 1 -> "1" [] d = 2 -> "2" [] d = 3 -> "3"
              [] d = 4 -> "4" [] d = 5 -> "5" [] d = 6 -> "6" [] d = 7 -> "7"
              [] d = 8 -> "8" [] d = 9 -> "9"

RECURSIVE IntStr(_)
IntStr(n) == IF n < 10 THEN <<Digit(n)>> ELSE IntStr(n \div 10) \o <<Digit(n % 10)>>

\* sorted(list) for a list of str, and list.sort(key=...): both are stable
RECURSIVE InsertBy(_, _, _)
InsertBy(Before(_, _), sorted, x) ==
    IF sorted = << >> THEN <<x>>
    ELSE IF Before(x, Head(sorted)) THEN <<x>> \o sorted
    ELSE <<Head(sorted)>> \o InsertBy(Before, Tail(sorted), x)

RECURSIVE SortBy(_, _)
SortBy(Before(_, _), list) ==
    IF list = << >> THEN << >>
    ELSE InsertBy(Before, SortBy(Before, SubSeq(list, 1, Len(list) - 1)),
                  list[Len(list)])

StrSorted(list) == SortBy(StrLess, list)

\* list[start:stop] for 0 <= start
Slice(list, start, stop) ==
    SubSeq(list, start + 1, IF stop < Len(list) THEN stop ELSE Len(list))

\* Path(str): the components between the "/" tokens; a leading "/" makes the
\* path absolute.  A component is one token, or the tokens of a file name
\* that holds a comma.
RECURSIVE SplitSlash(_, _)
SplitSlash(s, current) ==
    IF s = << >> THEN (IF current = << >> THEN << >> ELSE <<current>>)
    ELSE IF Head(s) = "/"
         THEN (IF current = << >> THEN << >> ELSE <<current>>)
              \o SplitSlash(Tail(s), << >>)
         ELSE SplitSlash(Tail(s), Append(current, Head(s)))

ComponentName(tokens) ==
    IF Len(tokens) = 1 THEN tokens[1]
    ELSE IF tokens = <<"a.zim", ",", "b.zim">> THEN "a.zim,b.zim"
    ELSE "?"

PathOfStr(s) ==
    LET comps == SplitSlash(s, << >>)
    IN  MkPath(s # << >> /\ Head(s) = "/",
               [i \in 1..Len(comps) |-> ComponentName(comps[i])])

\* Path.name
PathName(path) ==
    IF path.parts = << >> THEN "" ELSE path.parts[Len(path.parts)]

----------------------------------------------------------------------------
(* The world outside the program: the file system and the archives that   *)
(* libzim reads.  Archives are read-only, so the world never changes.      *)

\* config.zim_files_directory
zim_files_directory == MkPath(TRUE, <<"srv">>)

RegularFiles ==
    {<<"srv", "a.zim">>, <<"srv", "b.zim">>, <<"srv", "c.zim">>, <<"etc", "x.zim">>,
     <<"srv", "zim", "a.zim">>, <<"srv", "d.dat">>}

Directories == {<< >>, <<"srv">>, <<"etc">>, <<"srv", "zim">>}

\* the place a path names, links followed
Place(path) == PathResolve(path).parts

\* Path.exists()
PathExists(path) == Place(path) \in (RegularFiles \ removed) \cup Directories

\* what libzim finds in each archive: whether it has a full-text index, the
\* paths its searcher yields for the query "q" (index) and for the query "r"
\* (rare), in the searcher's order, and the title of the entry at each path.
\* The index of /srv/zim/a.zim names a path, Z0, that has no entry; d.dat is
\* an archive under another extension.
Archives ==
    (<<"srv", "a.zim">> :>
        [has_fulltext_index |-> TRUE,
         index |-> <<"A1", "A2", "A3">>,
         rare |-> <<"A2">>,
         entries |-> ("A1" :> [title |-> <<"l", "a", "v">>, is_redirect |-> FALSE]) @@
                     ("A2" :> [title |-> <<"v">>, is_redirect |-> FALSE]) @@
                     ("A3" :> [title |-> <<"v", "o">>, is_redirect |-> TRUE])]) @@
    (<<"srv", "b.zim">> :>
        [has_fulltext_index |-> TRUE,
         index |-> <<"B1", "B2">>,
         rare |-> << >>,
         entries |-> ("B1" :> [title |-> <<"v", "e">>, is_redirect |-> FALSE]) @@
                     ("B2" :> [title |-> <<"e">>, is_redirect |-> FALSE])]) @@
    (<<"srv", "c.zim">> :>
        [has_fulltext_index |-> FALSE,
         index |-> <<"C1">>,
         rare |-> << >>,
         entries |-> ("C1" :> [title |-> <<"c">>, is_redirect |-> FALSE])]) @@
    (<<"etc", "x.zim">> :>
        [has_fulltext_index |-> TRUE,
         index |-> <<"X1">>,
         rare |-> << >>,
         entries |-> ("X1" :> [title |-> <<"s">>, is_redirect |-> FALSE])]) @@
    (<<"srv", "zim", "a.zim">> :>
        [has_fulltext_index |-> TRUE,
         index |-> <<"Z1", "Z0", "Z2">>,
         rare |-> <<"Z0">>,
         entries |-> ("Z1" :> [title |-> <<"z">>, is_redirect |-> FALSE]) @@
                     ("Z2" :> [title |-> <<"z", "a">>, is_redirect |-> FALSE])]) @@
    (<<"srv", "d.dat">> :>
        [has_fulltext_index |-> TRUE,
         index |-> <<"D1">>,
         rare |-> << >>,
         entries |-> ("D1" :> [title |-> <<"D", "a">>, is_redirect |-> FALSE]) @@
                     ("D2" :> [title |-> <<"b">>, is_redirect |-> TRUE])])

\* the archives as they are now: only an archive with a full-text index
\* yields paths for a query
ArchiveOnDisk ==
    [f \in DOMAIN Archives |->
        [has_fulltext_index |-> f \in indexed,
         index |-> IF f \in indexed THEN Archives[f].index ELSE << >>,
         rare |-> IF f \in indexed THEN Archives[f].rare ELSE << >>,
         entries |-> Archives[f].entries]]

\* the archives that hold a full-text index unless stated otherwise
DefaultIndexed == {f \in DOMAIN Archives : Archives[f].has_fulltext_index}

\* a world in which no file is deleted
WorldInit ==
    /\ indexed = DefaultIndexed
    /\ removed = {}

\* libzim.reader.Archive(path) raises RuntimeError unless the path names a
\* readable archive
ArchiveOpens(path) == Place(path) \in DOMAIN ArchiveOnDisk \ removed

\* zim_directory.glob("*.zim"), in some order of the directory's entries
GlobOrders ==
    {<<"a.zim", "b.zim", "c.zim">>, <<"c.zim", "a.zim", "b.zim">>,
     <<"b.zim", "c.zim", "a.zim">>}

----------------------------------------------------------------------------
(* The state of the program: the fields of the ZimManager and of the      *)
(* SearchEngine, and the events of the call in progress.                   *)
(*                                                                         *)
(* An archive handle is a record: the place of the file it was opened on,  *)
(* and a number that tells it from the other handles alive on that file.   *)

NoHandle == [file |-> << >>, id |-> 0 - 1]

Event(kind, place, handle) == [ev |-> kind, place |-> place, h |-> handle]

Log(s, kind, place, handle) ==
    [s EXCEPT !.log = Append(@, Event(kind, place, handle))]

\* The handles the program still refers to: the values of the handle cache
\* and the archives the cached searchers are bound to.
Retained(s) ==
    Range(s.archive_cache.cache)
        \cup {s.searcher_cache[z].archive : z \in DOMAIN s.searcher_cache}

\* libzim.reader.Archive(str(filepath)): a new handle
NewHandle(s, place) ==
    [file |-> place,
     id |-> CHOOSE i \in 0..Cardinality(Retained(s)) :
              /\ [file |-> place, id |-> i] \notin Retained(s)
              /\ \A j \in 0..(i - 1) : [file |-> place, id |-> j] \in Retained(s)]

Return(s, ret) == [s |-> s, ret |-> ret, exc |-> "none"]
Raise(s, exc) == [s |-> s, ret |-> None, exc |-> exc]

\* archive_cache.put(key, archive); the handles the put drops are logged
ArchiveCachePut(s, key, archive) ==
    Let(LRUCache_put(s.archive_cache, key, archive), LAMBDA p :
    Let({k \in DOMAIN s.archive_cache.cache : k \notin DOMAIN p.self.cache},
        LAMBDA dropped :
    Let([s EXCEPT !.archive_cache = p.self], LAMBDA s1 :
    IF p.exc # "none" THEN Raise(s, p.exc)
    ELSE IF dropped = {} THEN Return(s1, None)
    ELSE Let(CHOOSE k \in dropped : TRUE, LAMBDA k :
         Return(Log(s1, "drop", k, s.archive_cache.cache[k]), None))
    )))

----------------------------------------------------------------------------
(* zim_manager.py: class ZimManager *)

\* get_archive without the look-up in archive_cache
ZimManager_get_archive_nocache(s, filename) ==
    Let(validate_zim_file_path(PathOfStr(filename), zim_files_directory), LAMBDA v :
    IF v.exc # "none"
    THEN Return(Log(s, "rejected", Place(PathJoin(zim_files_directory,
                                                  PathOfStr(filename))), NoHandle),
                None)
    ELSE
    Let(v.ret[1], LAMBDA filepath :
    Let(Log(Log(s, "validated", filepath.parts, NoHandle),
            "exists", filepath.parts, NoHandle), LAMBDA s1 :
    IF ~PathExists(filepath) THEN Return(s1, None)
    ELSE
    Let(filepath.parts, LAMBDA cache_key :
    IF ~ArchiveOpens(filepath)
    THEN Return(Log(s1, "open_failed", filepath.parts, NoHandle), None)
    ELSE
    Let(NewHandle(s1, filepath.parts), LAMBDA archive :
    Let(Log(s1, "open", filepath.parts, archive), LAMBDA s3 :
    Let(ArchiveCachePut(s3, cache_key, archive), LAMBDA p :
    IF p.exc # "none" THEN Raise(s3, p.exc)
    ELSE Return(p.s, Some(archive))
    )))))))

ZimManager_get_archive(s, filename) ==
    Let(validate_zim_file_path(PathOfStr(filename), zim_files_directory), LAMBDA v :
    IF v.exc # "none"
    THEN \* ValueError, caught: return None
         Return(Log(s, "rejected", Place(PathJoin(zim_files_directory,
                                                  PathOfStr(filename))), NoHandle),
                None)
    ELSE
    Let(v.ret[1], LAMBDA filepath :
    Let(Log(Log(s, "validated", filepath.parts, NoHandle),
            "exists", filepath.parts, NoHandle), LAMBDA s1 :
    IF ~PathExists(filepath) THEN Return(s1, None)
    ELSE
    Let(filepath.parts, LAMBDA cache_key :
    Let(LRUCache_get(s1.archive_cache, cache_key), LAMBDA g :
    Let([s1 EXCEPT !.archive_cache = g.self], LAMBDA s2 :
    IF g.ret # None THEN Return(s2, g.ret)
    ELSE IF ~ArchiveOpens(filepath)
    THEN \* RuntimeError, caught: return None
         Return(Log(s2, "open_failed", filepath.parts, NoHandle), None)
    ELSE
    Let(NewHandle(s2, filepath.parts), LAMBDA archive :
    Let(Log(s2, "open", filepath.parts, archive), LAMBDA s3 :
    Let(ArchiveCachePut(s3, cache_key, archive), LAMBDA p :
    IF p.exc # "none"
    THEN \* IndexError is not among (OSError, RuntimeError, ValueError)
         Raise(s3, p.exc)
    ELSE Return(p.s, Some(archive))
    )))))))))

\* The descriptor built from an open archive and the file's stat.
FileInfo(filepath) ==
    [filename |-> PathName(filepath),
     filepath |-> filepath,
     has_fulltext_index |-> ArchiveOnDisk[Place(filepath)].has_fulltext_index]

ZimManager__get_zim_file_info(s, filepath) ==
    Let(PathName(filepath), LAMBDA filename :
    IF filename \in DOMAIN s.file_info_cache
    THEN Return(s, Some(s.file_info_cache[filename]))
    ELSE IF ~ArchiveOpens(filepath)
    THEN \* RuntimeError (OSError for a missing file), logged and raised again
         Raise(Log(s, "open_failed", Place(filepath), NoHandle), "RuntimeError")
    ELSE
    Let(NewHandle(s, Place(filepath)), LAMBDA archive :
    Let(Log(Log(s, "open", Place(filepath), archive),
            "stat", Place(filepath), NoHandle), LAMBDA s1 :
    Let(FileInfo(filepath), LAMBDA file_info :
    Return([s1 EXCEPT !.file_info_cache = DictSet(@, filename, file_info)],
           Some(file_info))
    ))))

ZimManager_get_zim_file_info(s, filename) ==
    Let(validate_zim_file_path(PathOfStr(filename), zim_files_directory), LAMBDA v :
    IF v.exc # "none"
    THEN Return(Log(s, "rejected", Place(PathJoin(zim_files_directory,
                                                  PathOfStr(filename))), NoHandle),
                None)
    ELSE
    Let(v.ret[1], LAMBDA filepath :
    Let(Log(Log(s, "validated", filepath.parts, NoHandle),
            "exists", filepath.parts, NoHandle), LAMBDA s1 :
    IF ~PathExists(filepath) THEN Return(s1, None)
    ELSE
    Let(ZimManager__get_zim_file_info(s1, filepath), LAMBDA r :
    \* (OSError, RuntimeError, ValueError), caught: return None
    IF r.exc # "none" THEN Return(r.s, None) ELSE r
    ))))

\* the loop of discover_zim_files over the files glob yields
RECURSIVE DiscoverLoop(_, _, _)
DiscoverLoop(s, todo, zim_files) ==
    IF todo = << >> THEN [s |-> s, zim_files |-> zim_files]
    ELSE
    Let(ZimManager__get_zim_file_info(
            s, PathJoin(zim_files_directory, MkPath(FALSE, <<Head(todo)>>))),
        LAMBDA r :
    IF r.exc # "none"
    THEN \* (OSError, RuntimeError, ValueError), caught: the file is skipped
         DiscoverLoop(r.s, Tail(todo), zim_files)
    ELSE DiscoverLoop(r.s, Tail(todo), Append(zim_files, r.ret[1]))
    )

\* discover_zim_files without the test of _available_files
ZimManager_discover_zim_files_nomemo(s, force_refresh, glob) ==
    Let(Log(s, "exists", Place(zim_files_directory), NoHandle), LAMBDA s1 :
    IF ~PathExists(zim_files_directory) THEN Return(s1, << >>)
    ELSE
    Let(DiscoverLoop(Log(s1, "glob", Place(zim_files_directory), NoHandle),
                     glob, << >>), LAMBDA l :
    Return([l.s EXCEPT !.available_files = Some(l.zim_files)], l.zim_files)
    ))

ZimManager_discover_zim_files(s, force_refresh, glob) ==
    IF s.available_files # None /\ ~force_refresh
    THEN Return(s, s.available_files[1])
    ELSE
    Let(Log(s, "exists", Place(zim_files_directory), NoHandle), LAMBDA s1 :
    IF ~PathExists(zim_files_directory) THEN Return(s1, << >>)
    ELSE
    Let(DiscoverLoop(Log(s1, "glob", Place(zim_files_directory), NoHandle),
                     glob, << >>), LAMBDA l :
    Return([l.s EXCEPT !.available_files = Some(l.zim_files)], l.zim_files)
    ))

ZimManager_validate_zim_file(s, filename) ==
    Let(validate_zim_file_path(PathOfStr(filename), zim_files_directory), LAMBDA v :
    IF v.exc # "none"
    THEN Return(Log(s, "rejected", Place(PathJoin(zim_files_directory,
                                                  PathOfStr(filename))), NoHandle),
                FALSE)
    ELSE
    Let(v.ret[1], LAMBDA filepath :
    Let(Log(Log(s, "validated", filepath.parts, NoHandle),
            "exists", filepath.parts, NoHandle), LAMBDA s1 :
    IF ~PathExists(filepath) THEN Return(s1, FALSE)
    ELSE
    Let(ZimManager_get_archive(s1, filename), LAMBDA r :
    IF r.exc # "none" THEN r ELSE Return(r.s, r.ret # None)
    ))))

\* archive_cache.clear(), file_info_cache.clear(), _available_files = None
RECURSIVE LogDrops(_, _, _)
LogDrops(s, cache, keys) ==
    IF keys = << >> THEN s
    ELSE LogDrops(Log(s, "drop", Head(keys), cache[Head(keys)]), cache, Tail(keys))

\* clear_caches without _available_files = None
ZimManager_clear_caches_keepmemo(s) ==
    Let(LogDrops(s, s.archive_cache.cache, s.archive_cache.access_order), LAMBDA s1 :
    Return([s1 EXCEPT !.archive_cache = LRUCache_clear(@),
                      !.file_info_cache = EmptyDict],
           None)
    )

ZimManager_clear_caches(s) ==
    Let(LogDrops(s, s.archive_cache.cache, s.archive_cache.access_order), LAMBDA s1 :
    Return([s1 EXCEPT !.archive_cache = LRUCache_clear(@),
                      !.file_info_cache = EmptyDict,
                      !.available_files = None],
           None)
    )

----------------------------------------------------------------------------
(* utils.py: validate_search_query.  A query is a str of one-character    *)
(* tokens, so Len is len().                                                *)

MaxQueryLen == 1000

validate_search_query(query) ==
    IF query = << >> \/ StrStrip(query) = << >>
    THEN [ret |-> << >>, exc |-> "ValueError"]
    ELSE LET cleaned_query == StrStrip(query)
         IN  IF Len(cleaned_query) > MaxQueryLen
             THEN [ret |-> << >>, exc |-> "ValueError"]
             ELSE [ret |-> cleaned_query, exc |-> "none"]

----------------------------------------------------------------------------
(* search_engine.py: class SearchEngine *)

SearchEngine__get_searcher(s, zim_file) ==
    IF zim_file \in DOMAIN s.searcher_cache
    THEN Return(s, Some(s.searcher_cache[zim_file]))
    ELSE
    Let(ZimManager_get_archive(s, zim_file), LAMBDA r :
    IF r.exc # "none"
    THEN \* IndexError is not among (OSError, ValueError, RuntimeError)
         r
    ELSE IF r.ret = None THEN Return(r.s, None)
    ELSE
    Let(r.ret[1], LAMBDA archive :
    IF ~ArchiveOnDisk[archive.file].has_fulltext_index THEN Return(r.s, None)
    ELSE
    Let([archive |-> archive], LAMBDA searcher :
    Return([r.s EXCEPT !.searcher_cache = DictSet(@, zim_file, searcher)],
           Some(searcher))
    )))

\* searcher.search(query).getResults(start, count): the paths the archive's
\* index holds for the query, from the start-th on
GetResults(searcher, clean_query, start, count) ==
    Slice(IF clean_query = <<"q">> THEN ArchiveOnDisk[searcher.archive.file].index
          ELSE IF clean_query = <<"r">> THEN ArchiveOnDisk[searcher.archive.file].rare
          ELSE << >>,
          start, start + count)

\* the loop of search_single_zim, had it ended at the first path whose
\* look-up fails
RECURSIVE ResultLoop_abort(_, _, _, _, _)
ResultLoop_abort(s, zim_file, archive, todo, results) ==
    IF todo = << >> THEN [s |-> s, results |-> results]
    ELSE LET path == Head(todo)
             s1 == Log(s, "lookup", archive.file, archive)
             entries == ArchiveOnDisk[archive.file].entries
         IN  IF path \notin DOMAIN entries
             THEN [s |-> s1, results |-> results]
             ELSE ResultLoop_abort(s1, zim_file, archive, Tail(todo),
                      Append(results, [zim_file |-> zim_file,
                                       path |-> path,
                                       title |-> entries[path].title,
                                       is_redirect |-> entries[path].is_redirect]))

\* the loop of search_single_zim over the result set
RECURSIVE ResultLoop(_, _, _, _, _)
ResultLoop(s, zim_file, archive, todo, results) ==
    IF todo = << >> THEN [s |-> s, results |-> results]
    ELSE LET path == Head(todo)
             s1 == Log(s, "lookup", archive.file, archive)
             entries == ArchiveOnDisk[archive.file].entries
         IN  IF path \notin DOMAIN entries
             THEN \* KeyError, caught: the path is skipped
                  ResultLoop(s1, zim_file, archive, Tail(todo), results)
             ELSE ResultLoop(s1, zim_file, archive, Tail(todo),
                      Append(results, [zim_file |-> zim_file,
                                       path |-> path,
                                       title |-> entries[path].title,
                                       is_redirect |-> entries[path].is_redirect]))

SearchEngine_search_single_zim(s, zim_file, query, max_results, start_offset) ==
    Let(validate_search_query(query), LAMBDA vq :
    IF vq.exc # "none"
    THEN \* ValueError, caught: return []
         Return(s, << >>)
    ELSE
    Let(vq.ret, LAMBDA clean_query :
    Let(SearchEngine__get_searcher(s, zim_file), LAMBDA g :
    IF g.exc # "none" THEN Raise(g.s, g.exc)
    ELSE IF g.ret = None THEN Return(g.s, << >>)
    ELSE
    Let(g.ret[1], LAMBDA searcher :
    Let(Log(g.s, "query", searcher.archive.file, searcher.archive), LAMBDA s1 :
    Let(GetResults(searcher, clean_query, start_offset, max_results),
        LAMBDA result_set :
    Let(ZimManager_get_archive(s1, zim_file), LAMBDA a :
    IF a.exc # "none" THEN Raise(a.s, a.exc)
    ELSE IF result_set = << >> THEN Return(a.s, << >>)
    ELSE IF a.ret = None
    THEN \* None.get_entry_by_path: AttributeError, caught nowhere
         Raise(a.s, "AttributeError")
    ELSE
    Let(ResultLoop(a.s, zim_file, a.ret[1], result_set, << >>), LAMBDA l :
    Return(l.s, l.results)
    ))))))))

\* the loop of search_multiple_zim over zim_files; the branch taken when
\* enable_parallel_search is set runs the same loop
RECURSIVE FilesLoop(_, _, _, _, _)
FilesLoop(s, todo, clean_query, max_results, all_results) ==
    IF todo = << >> THEN [s |-> s, all_results |-> all_results, exc |-> "none"]
    ELSE
    Let(SearchEngine_search_single_zim(s, Head(todo), clean_query, max_results, 0),
        LAMBDA r :
    IF r.exc # "none"
    THEN [s |-> r.s, all_results |-> all_results, exc |-> r.exc]
    ELSE FilesLoop(r.s, Tail(todo), clean_query, max_results, all_results \o r.ret)
    )

\* the key of all_results.sort: len(r.title)
ShorterTitle(r1, r2) == Len(r1.title) < Len(r2.title)

SearchCacheKey(zim_files, clean_query, max_results, start_offset) ==
    StrJoin(<<",">>, StrSorted(zim_files)) \o <<"|">> \o clean_query \o <<"|">>
        \o IntStr(max_results) \o <<"|">> \o IntStr(start_offset)

\* search_multiple_zim, had it cached the merged list instead of the page
SearchEngine_search_multiple_zim_unsliced(s, zim_files, query, max_results, start_offset) ==
    Let(validate_search_query(query), LAMBDA vq :
    IF vq.exc # "none"
    THEN \* ValueError, caught: return []
         Return(s, << >>)
    ELSE
    Let(vq.ret, LAMBDA clean_query :
    Let(SearchCacheKey(zim_files, clean_query, max_results, start_offset),
        LAMBDA cache_key :
    Let(LRUCache_get(s.search_cache, cache_key), LAMBDA c :
    Let([s EXCEPT !.search_cache = c.self], LAMBDA s1 :
    IF c.ret # None THEN Return(s1, c.ret[1])
    ELSE
    Let(FilesLoop(s1, zim_files, clean_query, max_results, << >>), LAMBDA l :
    IF l.exc # "none" THEN Raise(l.s, l.exc)
    ELSE
    Let(SortBy(ShorterTitle, l.all_results), LAMBDA all_results :
    Let(Slice(all_results, start_offset, start_offset + max_results),
        LAMBDA paginated_results :
    Let(LRUCache_put(l.s.search_cache, cache_key, all_results), LAMBDA p :
    IF p.exc # "none"
    THEN \* IndexError is not among (OSError, ValueError, RuntimeError)
         Raise(l.s, p.exc)
    ELSE Return([l.s EXCEPT !.search_cache = p.self], paginated_results)
    )))))))))

\* search_multiple_zim without all_results.sort
SearchEngine_search_multiple_zim_unsorted(s, zim_files, query, max_results, start_offset) ==
    Let(validate_search_query(query), LAMBDA vq :
    IF vq.exc # "none"
    THEN \* ValueError, caught: return []
         Return(s, << >>)
    ELSE
    Let(vq.ret, LAMBDA clean_query :
    Let(SearchCacheKey(zim_files, clean_query, max_results, start_offset),
        LAMBDA cache_key :
    Let(LRUCache_get(s.search_cache, cache_key), LAMBDA c :
    Let([s EXCEPT !.search_cache = c.self], LAMBDA s1 :
    IF c.ret # None THEN Return(s1, c.ret[1])
    ELSE
    Let(FilesLoop(s1, zim_files, clean_query, max_results, << >>), LAMBDA l :
    IF l.exc # "none" THEN Raise(l.s, l.exc)
    ELSE
    Let(l.all_results, LAMBDA all_results :
    Let(Slice(all_results, start_offset, start_offset + max_results),
        LAMBDA paginated_results :
    Let(LRUCache_put(l.s.search_cache, cache_key, paginated_results), LAMBDA p :
    IF p.exc # "none"
    THEN \* IndexError is not among (OSError, ValueError, RuntimeError)
         Raise(l.s, p.exc)
    ELSE Return([l.s EXCEPT !.search_cache = p.self], paginated_results)
    )))))))))

SearchEngine_search_multiple_zim(s, zim_files, query, max_results, start_offset) ==
    Let(validate_search_query(query), LAMBDA vq :
    IF vq.exc # "none"
    THEN \* ValueError, caught: return []
         Return(s, << >>)
    ELSE
    Let(vq.ret, LAMBDA clean_query :
    Let(SearchCacheKey(zim_files, clean_query, max_results, start_offset),
        LAMBDA cache_key :
    Let(LRUCache_get(s.search_cache, cache_key), LAMBDA c :
    Let([s EXCEPT !.search_cache = c.self], LAMBDA s1 :
    IF c.ret # None THEN Return(s1, c.ret[1])
    ELSE
    Let(FilesLoop(s1, zim_files, clean_query, max_results, << >>), LAMBDA l :
    IF l.exc # "none" THEN Raise(l.s, l.exc)
    ELSE
    Let(SortBy(ShorterTitle, l.all_results), LAMBDA all_results :
    Let(Slice(all_results, start_offset, start_offset + max_results),
        LAMBDA paginated_results :
    Let(LRUCache_put(l.s.search_cache, cache_key, paginated_results), LAMBDA p :
    IF p.exc # "none"
    THEN \* IndexError is not among (OSError, ValueError, RuntimeError)
         Raise(l.s, p.exc)
    ELSE Return([l.s EXCEPT !.search_cache = p.self], paginated_results)
    )))))))))

SearchEngine_clear_caches(s) ==
    Return([s EXCEPT !.search_cache = LRUCache_clear(@),
                     !.searcher_cache = EmptyDict],
           None)

----------------------------------------------------------------------------
(* file_discovery.py: class FileDiscovery *)

\* file_path.suffix.lower() == '.zim'
HasZimSuffix(path) ==
    PathName(path) \in {"a.zim", "b.zim", "c.zim", "x.zim", "no.zim", "a.zim,b.zim"}

FileDiscovery_validate_file_access(s, filename) ==
    Let(PathJoin(zim_files_directory, PathOfStr(filename)), LAMBDA path :
    Let(Log(s, "exists", Place(path), NoHandle), LAMBDA s1 :
    IF ~PathExists(path) THEN Return(s1, FALSE)
    ELSE
    Let(Log(Log(s1, "access", Place(path), NoHandle),
            "is_file", Place(path), NoHandle), LAMBDA s3 :
    IF Place(path) \notin RegularFiles THEN Return(s3, FALSE)
    ELSE IF ~HasZimSuffix(path) THEN Return(s3, FALSE)
    ELSE Return(s3, TRUE)
    )))

FileDiscovery_get_file_stats(s, filename) ==
    Let(PathJoin(zim_files_directory, PathOfStr(filename)), LAMBDA path :
    Let(FileDiscovery_validate_file_access(s, filename), LAMBDA v :
    IF ~v.ret THEN Return(v.s, None)
    ELSE Return(Log(v.s, "stat", Place(path), NoHandle),
                Some([filename |-> filename]))
    ))

----------------------------------------------------------------------------
(* The stand-alone cache: any sequence of get, put and clear. *)

\* What the observer keeps of the operation before the last one.
Prev(o) == [name |-> o.name, key |-> o.key, hit |-> o.ret # None]

NoOp == [name |-> "init", key |-> 0, ret |-> None, exc |-> "none",
         evicted |-> {}, prev |-> [name |-> "none", key |-> 0, hit |-> FALSE]]

\* the callers of the cache; one that is in no call
Threads == {1, 2}
Idle == [pc |-> "idle", key |-> 0, oldest_key |-> 0, ret |-> None,
         exc |-> "none", calls |-> 0]
NoThreads == [t \in Threads |-> Idle]

\* The keys an operation removed from the cache.
Evicted(before, after) == (DOMAIN before.cache) \ (DOMAIN after.cache)

\* The variables of the other components while the cache runs alone.
PathIdle ==
    /\ base_directory = MkPath(TRUE, << >>)
    /\ file_path = MkPath(TRUE, << >>)
    /\ validated = NotCalled

NoCall == [name |-> "none", args |-> << >>, ret |-> None, exc |-> "none",
           log |-> << >>]

\* the FileDiscovery after construction, at time 0
DiscoveryIdle ==
    /\ last_scan_time = None
    /\ now = 0
    /\ listing = << >>

\* nobody has called get_archive
NoCallers == << >>

\* no call of browse_entries_by_pattern has begun
NoBrowse == [pc |-> "idle", zim_file |-> << >>, path_pattern |-> None,
             title_pattern |-> None, limit |-> 0, archive |-> NoHandle,
             draws |-> 0, count |-> 0, results |-> << >>]

\* the paging client before its first run
NoPage == [zim_files |-> << >>, max_results |-> 0, start_offset |-> 0,
           results |-> << >>, done |-> TRUE, exc |-> "none"]

SysIdle ==
    /\ WorldInit
    /\ memo = EmptyDict
    /\ page = NoPage
    /\ browse = NoBrowse
    /\ DiscoveryIdle
    /\ callers = NoCallers
    /\ archive_cache = LRUCache_init(0)
    /\ file_info_cache = EmptyDict
    /\ available_files = None
    /\ searcher_cache = EmptyDict
    /\ search_cache = LRUCache_init(0)
    /\ call = NoCall

CacheInit ==
    /\ PathIdle
    /\ SysIdle
    /\ lru \in {LRUCache_init(n) : n \in 0..MaxCap}
    /\ stamp = [k \in Keys |-> 0]
    /\ clock = 0
    /\ op = NoOp
    /\ run = << >>
    /\ threads = NoThreads

CacheGet(key) ==
    /\ clock < MaxOps
    /\ LET r == LRUCache_get(lru, key)
       IN  /\ lru' = r.self
           /\ op' = [name |-> "get", key |-> key, ret |-> r.ret, exc |-> "none",
                  evicted |-> Evicted(lru, r.self), prev |-> Prev(op)]
           /\ stamp' = IF r.ret # None THEN [stamp EXCEPT ![key] = clock + 1]
                       ELSE stamp
    /\ clock' = clock + 1
    /\ run' = <<0>>
    /\ UNCHANGED <<threads, pathVars, sysVars, worldVars, discoveryVars, callers, browse>>

CachePut(key, value) ==
    /\ clock < MaxOps
    /\ LET r == LRUCache_put(lru, key, value)
       IN  /\ lru' = r.self
           /\ op' = [name |-> "put", key |-> key, ret |-> None, exc |-> r.exc,
                  evicted |-> Evicted(lru, r.self), prev |-> Prev(op),
                  value |-> value, update |-> key \in DOMAIN lru.cache]
           /\ stamp' = IF r.exc = "none" THEN [stamp EXCEPT ![key] = clock + 1]
                       ELSE stamp
           /\ run' = IF r.exc = "none" /\ run # <<0>> /\ key \notin Range(run)
                     THEN Append(run, key) ELSE <<0>>
    /\ clock' = clock + 1
    /\ UNCHANGED <<threads, pathVars, sysVars, worldVars, discoveryVars, callers, browse>>

CacheClear ==
    /\ clock < MaxOps
    /\ lru' = LRUCache_clear(lru)
    /\ op' = [name |-> "clear", key |-> 0, ret |-> None, exc |-> "none",
              evicted |-> Evicted(lru, LRUCache_clear(lru)), prev |-> Prev(op)]
    /\ clock' = clock + 1
    /\ run' = << >>
    /\ UNCHANGED <<stamp, threads, pathVars, sysVars, worldVars, discoveryVars, callers, browse>>

CacheNext ==
    \/ \E key \in Keys : CacheGet(key)
    \/ \E key \in Keys, value \in Values : CachePut(key, value)
    \/ CacheClear

SpecCache == CacheInit /\ [][CacheNext]_vars

----------------------------------------------------------------------------
(* Claims about the stand-alone cache. *)

\* The cached key whose last get-hit or put is the oldest, among S.
Oldest(S) == CHOOSE k \in S : \A j \in S : stamp[k] <= stamp[j]

\* The keys a get would find.
Retrievable(self) == {k \in Keys : LRUCache_get(self, k).ret # None}

\* C1: a cache constructed with capacity N >= 1 never holds more than N
\* entries, after any sequence of get, put and clear.
C1_SizeWithinCapacity ==
    lru.max_size >= 1 => LRUCache_size(lru) <= lru.max_size

\* A put of a new key into a full cache has just evicted.
C1_Witness ==
    /\ lru.max_size >= 1
    /\ op.name = "put" /\ op.evicted # {}
    /\ LRUCache_size(lru) = lru.max_size

\* C2: a put of a key that is not cached into a cache holding exactly
\* N = capacity >= 1 entries removes exactly one entry, the one whose last
\* get-hit or put is the oldest, keeps every other entry's value, and makes
\* the new key the most recently used.
C2_PutStep ==
    (/\ op'.name = "put"
     /\ lru.max_size >= 1
     /\ op'.key \notin DOMAIN lru.cache
     /\ LRUCache_size(lru) = lru.max_size)
    => LET old == Oldest(DOMAIN lru.cache)
           kept == (DOMAIN lru.cache) \ {old}
       IN  /\ op'.exc = "none"
           /\ op'.evicted = {old}
           /\ DOMAIN lru'.cache = kept \cup {op'.key}
           /\ \A k \in kept : lru'.cache[k] = lru.cache[k]
           /\ lru'.access_order[Len(lru'.access_order)] = op'.key
           /\ \A k \in kept : stamp'[k] < stamp'[op'.key]

\* ... hence after N+1 distinct keys were put into an empty cache, exactly
\* the N keys put last are retrievable.
C2_AfterRun ==
    (lru.max_size >= 1 /\ run # <<0>> /\ Len(run) = lru.max_size + 1)
    => Retrievable(lru) = Range(SubSeq(run, 2, Len(run)))

C2_PutEvictsLRU == [][C2_PutStep]_vars /\ []C2_AfterRun

\* N+1 distinct keys have been put into an empty cache of capacity N >= 1.
C2_Witness ==
    /\ lru.max_size >= 1
    /\ run # <<0>> /\ Len(run) = lru.max_size + 1
    /\ op.name = "put" /\ op.evicted = {run[1]}

\* C3: in every reachable state the keys of the value map are the elements
\* of access_order, and access_order holds each key exactly once.
C3_KeysMatchOrder ==
    /\ DOMAIN lru.cache = Range(lru.access_order)
    /\ Len(lru.access_order) = Cardinality(Range(lru.access_order))

\* A get has hit and moved a key of a cache that holds two or more, and a
\* clear emptied a cache that held entries.
C3_Witness ==
    \/ /\ op.name = "get" /\ op.ret # None
       /\ Len(lru.access_order) >= 2
       /\ lru.access_order[Len(lru.access_order)] = op.key
    \/ op.name = "clear" /\ op.evicted # {}

\* C4: a get that hits makes its key the most recently used: in a full
\* cache of capacity N >= 2, when the operation after the hit is a put of
\* a new key, the key evicted is not the one that was hit but the least
\* recently used of the others.
C4_HitStep ==
    (/\ op.name = "get" /\ op.ret # None
     /\ lru.max_size >= 2
     /\ LRUCache_size(lru) = lru.max_size
     /\ op'.name = "put"
     /\ op'.key \notin DOMAIN lru.cache)
    => /\ op.key \in DOMAIN lru'.cache
       /\ op'.evicted = {Oldest((DOMAIN lru.cache) \ {op.key})}

C4_GetRefreshes == [][C4_HitStep]_vars

\* A put into a full cache of capacity >= 2 evicted right after a get hit.
C4_Witness ==
    /\ lru.max_size >= 2
    /\ op.name = "put" /\ op.evicted # {}
    /\ op.prev.name = "get" /\ op.prev.hit
    /\ op.prev.key \in DOMAIN lru.cache

----------------------------------------------------------------------------
(* One caller of validate_zim_file_path, for every root and every name. *)

RECURSIVE PartsUpTo(_)
PartsUpTo(n) ==
    IF n = 0 THEN {<< >>}
    ELSE LET shorter == PartsUpTo(n - 1)
         IN  shorter \cup {Append(p, c) : p \in shorter, c \in Components}

Names == {MkPath(abs, parts) : abs \in BOOLEAN, parts \in PartsUpTo(MaxParts)}

Roots == {MkPath(TRUE, <<"srv">>), MkPath(TRUE, <<"srv", "zim">>),
          MkPath(TRUE, <<"data">>), MkPath(TRUE, <<"etc">>)}

CacheIdle ==
    /\ lru = LRUCache_init(0)
    /\ stamp = [k \in Keys |-> 0]
    /\ clock = 0
    /\ op = NoOp
    /\ run = << >>
    /\ threads = NoThreads

PathInit ==
    /\ CacheIdle
    /\ SysIdle
    /\ base_directory \in Roots
    /\ file_path \in Names
    /\ validated = NotCalled

PathValidate ==
    /\ validated = NotCalled
    /\ validated' = validate_zim_file_path(file_path, base_directory)
    /\ UNCHANGED <<base_directory, file_path, cacheVars, sysVars, worldVars, discoveryVars, callers, browse>>

PathNext == PathValidate

SpecPath == PathInit /\ [][PathNext]_vars

\* The canonical path a name denotes under a root.
Canonical(name, root) ==
    Walk(<< >>, IF name.abs THEN name.parts ELSE root.parts \o name.parts)

\* p is the directory r or lies below it.
RECURSIVE InsideRoot(_, _)
InsideRoot(p, r) ==
    \/ p = r
    \/ p # << >> /\ InsideRoot(Parent(p), r)

\* C7: for every root and every name, relative or absolute, whose canonical
\* path is not the root or a descendant of the root, validate_zim_file_path
\* raises; for every name whose canonical path is inside the root it
\* returns that canonical path.
C7_SandboxDecides ==
    validated # NotCalled =>
        LET canon == Canonical(file_path, base_directory)
            root == Walk(<< >>, base_directory.parts)
        IN  IF InsideRoot(canon, root)
            THEN validated = [ret |-> Some(MkPath(TRUE, canon)), exc |-> "none"]
            ELSE validated = [ret |-> None, exc |-> "ValueError"]

\* A relative name that climbs out of the root with ".." was rejected.
C7_Witness ==
    /\ validated.exc = "ValueError"
    /\ ~file_path.abs
    /\ file_path.parts # << >> /\ Head(file_path.parts) = ".."
    /\ ~InsideRoot(Canonical(file_path, base_directory),
                   Walk(<< >>, base_directory.parts))

----------------------------------------------------------------------------
(* The server: any sequence of calls of the registry, of a search in one  *)
(* archive and of the file utilities.                                      *)

\* the str arguments the callers pass
SA == <<"a.zim">>
SB == <<"b.zim">>
SC == <<"c.zim">>
SEscape == <<"..", "/", "etc", "/", "x.zim">>

FileArgs == {SA, SB, SC, SEscape}
Query == <<"q">>

\* the fields of the objects, and no events yet
Fields ==
    [archive_cache |-> archive_cache, file_info_cache |-> file_info_cache,
     available_files |-> available_files, searcher_cache |-> searcher_cache,
     search_cache |-> search_cache, log |-> << >>]

\* the call named `name` ended as r says
Ends(name, args, r) ==
    /\ archive_cache' = r.s.archive_cache
    /\ file_info_cache' = r.s.file_info_cache
    /\ available_files' = r.s.available_files
    /\ searcher_cache' = r.s.searcher_cache
    /\ search_cache' = r.s.search_cache
    /\ call' = [name |-> name, args |-> args, ret |-> r.ret, exc |-> r.exc,
                log |-> r.s.log]
    /\ UNCHANGED <<cacheVars, pathVars, worldVars, discoveryVars, callers>>

Finish(name, args, r) ==
    /\ Ends(name, args, r)
    /\ UNCHANGED <<memo, page, browse>>

SysInit ==
    /\ CacheIdle
    /\ PathIdle
    /\ WorldInit
    /\ archive_cache \in {LRUCache_init(n) : n \in 0..MaxCap}
    /\ file_info_cache = EmptyDict
    /\ available_files = None
    /\ searcher_cache = EmptyDict
    /\ search_cache = LRUCache_init(MaxCap)
    /\ call = NoCall
    /\ memo = EmptyDict
    /\ page = NoPage
    /\ browse = NoBrowse
    /\ DiscoveryIdle
    /\ callers = NoCallers

GetArchive(filename) ==
    \E r \in {ZimManager_get_archive(Fields, filename)} :
        Finish("get_archive", <<filename>>, r)

GetZimFileInfo(filename) ==
    \E r \in {ZimManager_get_zim_file_info(Fields, filename)} :
        Finish("get_zim_file_info", <<filename>>, r)

DiscoverZimFiles(force_refresh, glob) ==
    \E r \in {ZimManager_discover_zim_files(Fields, force_refresh, glob)} :
        Finish("discover_zim_files", <<force_refresh>>, r)

ValidateZimFile(filename) ==
    \E r \in {ZimManager_validate_zim_file(Fields, filename)} :
        Finish("validate_zim_file", <<filename>>, r)

ManagerClearCaches ==
    \E r \in {ZimManager_clear_caches(Fields)} :
        Finish("ZimManager.clear_caches", << >>, r)

SearchSingleZim(zim_file, query, max_results, start_offset) ==
    \E r \in {SearchEngine_search_single_zim(Fields, zim_file, query, max_results, start_offset)} :
        Finish("search_single_zim", <<zim_file, query, max_results, start_offset>>, r)

EngineClearCaches ==
    \E r \in {SearchEngine_clear_caches(Fields)} :
        Finish("SearchEngine.clear_caches", << >>, r)

ValidateFileAccess(filename) ==
    \E r \in {FileDiscovery_validate_file_access(Fields, filename)} :
        Finish("validate_file_access", <<filename>>, r)

GetFileStats(filename) ==
    \E r \in {FileDiscovery_get_file_stats(Fields, filename)} :
        Finish("get_file_stats", <<filename>>, r)

Next ==
    \/ \E filename \in FileArgs : GetArchive(filename)
    \/ \E filename \in FileArgs : GetZimFileInfo(filename)
    \/ \E force_refresh \in BOOLEAN, glob \in GlobOrders :
            DiscoverZimFiles(force_refresh, glob)
    \/ \E filename \in FileArgs : ValidateZimFile(filename)
    \/ ManagerClearCaches
    \/ \E zim_file \in FileArgs : SearchSingleZim(zim_file, Query, MaxCap, 0)
    \/ EngineClearCaches
    \/ \E filename \in FileArgs : ValidateFileAccess(filename)
    \/ \E filename \in FileArgs : GetFileStats(filename)

Spec == SysInit /\ [][Next]_vars

----------------------------------------------------------------------------
(* Claims about the server. *)

\* C5: at every point of any sequence of registry, search and extraction
\* operations, the archive handles that were opened and are still retained,
\* by the handle cache or by a searcher bound to an archive, number at most
\* archive_cache_size.
C5_RetainedHandlesBounded ==
    Cardinality(Retained(Fields)) <= archive_cache.max_size

\* C6: every archive handle that leaves the handle cache, by LRU eviction
\* in get_archive or by clear_caches, was released (closed) before it was
\* dropped.
C6_DroppedHandlesReleased ==
    \A i \in DOMAIN call.log :
        call.log[i].ev = "drop" =>
            \E j \in 1..(i - 1) :
                call.log[j].ev = "release" /\ call.log[j].h = call.log[i].h

\* the events that are a file-system access or an archive open
IsAccess(e) ==
    e.ev \in {"exists", "stat", "access", "is_file", "glob", "open", "open_failed"}

\* C8: in every operation each file-system access and each archive open on
\* a path comes after a successful sandbox validation of that path, in the
\* same call; stated here in the part the claim ends with: no path that
\* fails validation is ever stat-ed or opened.
C8_NoAccessOutsideSandbox ==
    \A i \in DOMAIN call.log :
        IsAccess(call.log[i]) =>
            validate_zim_file_path(MkPath(TRUE, call.log[i].place),
                                   zim_files_directory).exc = "none"

----------------------------------------------------------------------------
(* The search coordinator: any sequence of searches over several archives *)
(* and of cache clears.                                                    *)

\* the arguments the callers pass
FileLists == {<<SA, SB>>, <<SB, SA>>}
Queries == {Query}
Limits == {1, 2}
Offsets == {0, 1}

\* the cache key search_multiple_zim builds for an argument tuple
KeyOf(args) ==
    SearchCacheKey(args[1], validate_search_query(args[2]).ret, args[3], args[4])

\* the remembered calls whose cache entry is still in the cache
Live(m, cache) ==
    LET live == {a \in DOMAIN m : /\ validate_search_query(a[2]).exc = "none"
                                  /\ KeyOf(a) \in DOMAIN cache.cache}
    IN  [a \in live |-> m[a]]

SearchInit ==
    /\ CacheIdle
    /\ PathIdle
    /\ WorldInit
    /\ archive_cache = LRUCache_init(MaxCap)
    /\ file_info_cache = EmptyDict
    /\ available_files = None
    /\ searcher_cache = EmptyDict
    /\ search_cache \in {LRUCache_init(n) : n \in 0..MaxCap}
    /\ call = NoCall
    /\ memo = EmptyDict
    /\ page = NoPage
    /\ browse = NoBrowse
    /\ DiscoveryIdle
    /\ callers = NoCallers

SearchMultipleZim(zim_files, query, max_results, start_offset) ==
    \E args \in {<<zim_files, query, max_results, start_offset>>},
       r \in {SearchEngine_search_multiple_zim(Fields, zim_files, query,
                                               max_results, start_offset)} :
        /\ Ends("search_multiple_zim", args, r)
        /\ memo' = Live(IF r.exc = "none" THEN DictSet(memo, args, r.ret) ELSE memo,
                        r.s.search_cache)
        /\ UNCHANGED <<page, browse>>

SearchClearCaches ==
    \E r \in {SearchEngine_clear_caches(Fields)} :
        /\ Ends("SearchEngine.clear_caches", << >>, r)
        /\ memo' = Live(memo, r.s.search_cache)
        /\ UNCHANGED <<page, browse>>

SearchManagerClearCaches ==
    \E r \in {ZimManager_clear_caches(Fields)} :
        /\ Ends("ZimManager.clear_caches", << >>, r)
        /\ memo' = Live(memo, r.s.search_cache)
        /\ UNCHANGED <<page, browse>>

SearchNext ==
    \/ \E zim_files \in FileLists, query \in Queries, max_results \in Limits,
          start_offset \in Offsets :
            SearchMultipleZim(zim_files, query, max_results, start_offset)
    \/ SearchClearCaches
    \/ SearchManagerClearCaches

SpecSearch == SearchInit /\ [][SearchNext]_vars

\* the events that are work on an archive
IsArchiveWork(e) == e.ev \in {"open", "query", "lookup"}

C9_HitStep ==
    (call'.name = "search_multiple_zim" /\ call'.args \in DOMAIN memo) =>
        /\ call'.exc = "none"
        /\ call'.ret = memo[call'.args]
        /\ \A i \in DOMAIN call'.log : ~IsArchiveWork(call'.log[i])

\* C9: a call of search_multiple_zim with the archive list, query, limit and
\* offset of an earlier call, whose cache entry has been neither evicted nor
\* cleared since, returns the list the earlier call returned and performs no
\* searcher query and no entry lookup on any archive.
C9_HitRepeatsWithoutWork == [][C9_HitStep]_vars

\* a second call returned the non-empty list of the first without any work
\* on an archive, after another entry was put in between
C9_Witness ==
    /\ call.name = "search_multiple_zim"
    /\ call.args \in DOMAIN memo
    /\ call.ret # << >>
    /\ call.ret = memo[call.args]
    /\ \A i \in DOMAIN call.log : ~IsArchiveWork(call.log[i])
    /\ Len(search_cache.access_order) > 1

----------------------------------------------------------------------------
(* A client that reads a result list page after page: it calls            *)
(* search_multiple_zim with offsets 0, L, 2L, ... until a page is shorter  *)
(* than L.                                                                 *)

MaxPage == 3

PageFileLists == {<<SA>>, <<SB>>, <<SC>>, <<SA, SB>>}
PageSizes == 1..MaxPage

PageInit ==
    /\ CacheIdle
    /\ PathIdle
    /\ WorldInit
    /\ archive_cache = LRUCache_init(MaxCap)
    /\ file_info_cache = EmptyDict
    /\ available_files = None
    /\ searcher_cache = EmptyDict
    /\ search_cache \in {LRUCache_init(n) : n \in 0..MaxCap}
    /\ call = NoCall
    /\ memo = EmptyDict
    /\ page = NoPage
    /\ browse = NoBrowse
    /\ DiscoveryIdle
    /\ callers = NoCallers

PageStart(zim_files, max_results) ==
    /\ page.done
    /\ page' = [zim_files |-> zim_files, max_results |-> max_results,
                start_offset |-> 0, results |-> << >>, done |-> FALSE,
                exc |-> "none"]
    /\ UNCHANGED <<archive_cache, file_info_cache, available_files,
                   searcher_cache, search_cache, call, memo>>
    /\ UNCHANGED <<cacheVars, pathVars, worldVars, discoveryVars, callers, browse>>

PageFetch ==
    /\ ~page.done
    /\ \E r \in {SearchEngine_search_multiple_zim(Fields, page.zim_files, Query,
                     page.max_results, page.start_offset)} :
        /\ Ends("search_multiple_zim",
                <<page.zim_files, Query, page.max_results, page.start_offset>>, r)
        /\ page' = [page EXCEPT
                !.results = IF r.exc = "none" THEN @ \o r.ret ELSE @,
                !.start_offset = @ + page.max_results,
                !.done = r.exc # "none" \/ Len(r.ret) < page.max_results,
                !.exc = r.exc]
        /\ UNCHANGED <<memo, browse>>

PageNext ==
    \/ \E zim_files \in PageFileLists, max_results \in PageSizes :
            PageStart(zim_files, max_results)
    \/ PageFetch

SpecPage == PageInit /\ [][PageNext]_vars

\* a server as constructed, with room in its caches
FreshServer ==
    [archive_cache |-> LRUCache_init(MaxCap), file_info_cache |-> EmptyDict,
     available_files |-> None, searcher_cache |-> EmptyDict,
     search_cache |-> LRUCache_init(MaxCap), log |-> << >>]

\* the longest result list one archive yields
MaxIndex ==
    CHOOSE n \in {Len(ArchiveOnDisk[f].index) : f \in DOMAIN ArchiveOnDisk} :
        \A f \in DOMAIN ArchiveOnDisk : Len(ArchiveOnDisk[f].index) <= n

\* M: the hits the archives of zim_files hold for the query
TotalMatches(zim_files) ==
    Len(FilesLoop(FreshServer, zim_files, Query, MaxIndex, << >>).all_results)

\* the single call with limit = M and offset = 0
Unpaginated(zim_files) ==
    SearchEngine_search_multiple_zim(FreshServer, zim_files, Query,
                                     TotalMatches(zim_files), 0).ret

\* C10: the pages fetched with limit L at offsets 0, L, 2L, ... until a page
\* is shorter than L, put one after the other, are the list a single call
\* with limit M and offset 0 returns: every one of the M hits exactly once,
\* in the same order.
C10_PagesYieldEveryHit ==
    (page # NoPage /\ page.done /\ page.exc = "none") =>
        page.results = Unpaginated(page.zim_files)

----------------------------------------------------------------------------
(* What a miss of search_multiple_zim computes. *)

\* the first `limit` hits the archive named zim_file yields for the query
FirstHits(zim_file, limit) ==
    LET place == Place(PathJoin(zim_files_directory, PathOfStr(zim_file)))
    IN  IF place \notin DOMAIN ArchiveOnDisk \ removed THEN << >>
        ELSE LET found == ArchiveOnDisk[place].index
                 n == IF limit < Len(found) THEN limit ELSE Len(found)
             IN  [i \in 1..n |->
                     [zim_file |-> zim_file, path |-> found[i],
                      title |-> ArchiveOnDisk[place].entries[found[i]].title,
                      is_redirect |-> ArchiveOnDisk[place].entries[found[i]].is_redirect]]

\* the first hits of each archive, one archive after the other
RECURSIVE Merged(_, _)
Merged(zim_files, limit) ==
    IF zim_files = << >> THEN << >>
    ELSE FirstHits(Head(zim_files), limit) \o Merged(Tail(zim_files), limit)

\* the hits whose title has n tokens, in the order they have in the list
OfTitleLength(list, n) == SelectSeq(list, LAMBDA r : Len(r.title) = n)

\* the list in ascending title length, hits of one length in their old order
RECURSIVE ByTitleLength(_, _)
ByTitleLength(list, n) ==
    IF \A i \in DOMAIN list : Len(list[i].title) < n THEN << >>
    ELSE OfTitleLength(list, n) \o ByTitleLength(list, n + 1)

\* list[offset : offset + limit]
PageOf(list, limit, offset) ==
    [i \in 1..(IF Len(list) - offset < limit
               THEN (IF Len(list) < offset THEN 0 ELSE Len(list) - offset)
               ELSE limit) |-> list[offset + i]]

C11_MissStep ==
    (/\ call'.name = "search_multiple_zim"
     /\ call'.exc = "none"
     /\ validate_search_query(call'.args[2]).exc = "none"
     /\ KeyOf(call'.args) \notin DOMAIN search_cache.cache)
    => LET expected == PageOf(ByTitleLength(Merged(call'.args[1], call'.args[3]), 0),
                              call'.args[3], call'.args[4])
       IN  /\ call'.ret = expected
           /\ Len(call'.ret) <= call'.args[3]
           /\ KeyOf(call'.args) \in DOMAIN search_cache'.cache
           /\ search_cache'.cache[KeyOf(call'.args)] = call'.ret

\* C11: on a cache miss search_multiple_zim(archives, query, limit, offset)
\* returns, and stores under its cache key, the slice [offset, offset+limit)
\* of the list made of the first `limit` hits of each archive, in argument
\* order, sorted by ascending title length; it returns at most `limit` hits.
C11_MissReturnsSlice == [][C11_MissStep]_vars

\* a miss with offset 1 returned a page that is shorter than the merged list
C11_Witness ==
    /\ call.name = "search_multiple_zim"
    /\ call.exc = "none"
    /\ \E i \in DOMAIN call.log : call.log[i].ev = "query"
    /\ call.args[4] = 1
    /\ call.ret # << >>
    /\ Len(call.ret) < Len(Merged(call.args[1], call.args[3]))
    /\ KeyOf(call.args) \in DOMAIN search_cache.cache

----------------------------------------------------------------------------
(* search_engine.py: search_all_zim_files; server.py: search_zim_files *)

\* file_info.filename as a str
NameStr(name) ==
    IF name = "a.zim,b.zim" THEN <<"a.zim", ",", "b.zim">> ELSE <<name>>

\* the loop of search_all_zim_files over zim_files_info
RECURSIVE SearchableFiles(_)
SearchableFiles(zim_files_info) ==
    IF zim_files_info = << >> THEN << >>
    ELSE (IF Head(zim_files_info).has_fulltext_index
          THEN <<NameStr(Head(zim_files_info).filename)>>
          ELSE << >>) \o SearchableFiles(Tail(zim_files_info))

CaughtBySearch == {"OSError", "ValueError", "RuntimeError"}

SearchEngine_search_all_zim_files(s, query, max_results, start_offset, glob) ==
    Let(ZimManager_discover_zim_files(s, FALSE, glob), LAMBDA d :
    IF d.exc # "none"
    THEN (IF d.exc \in CaughtBySearch THEN Return(d.s, << >>) ELSE d)
    ELSE
    Let(SearchableFiles(d.ret), LAMBDA searchable_files :
    IF searchable_files = << >> THEN Return(d.s, << >>)
    ELSE
    Let(SearchEngine_search_multiple_zim(d.s, searchable_files, query, max_results,
                                         start_offset), LAMBDA r :
    IF r.exc \in CaughtBySearch THEN Return(r.s, << >>) ELSE r
    )))

\* config.max_search_results
MaxSearchResults == 100

\* the response, had has_more been set whenever there are results
SearchResponse_nonempty(status, results, max_results, start_offset) ==
    [status |-> status, count |-> Len(results), results |-> results,
     start_offset |-> start_offset, max_results |-> max_results,
     has_more |-> status = "success" /\ Len(results) > 0]

SearchResponse(status, results, max_results, start_offset) ==
    [status |-> status, count |-> Len(results), results |-> results,
     start_offset |-> start_offset, max_results |-> max_results,
     has_more |-> status = "success" /\ Len(results) = max_results]

\* the tool search_zim_files; zim_files is None or a list
search_zim_files(s, query, zim_files, max_results, start_offset, glob) ==
    IF max_results <= 0 \/ max_results > MaxSearchResults
    THEN Return(s, SearchResponse("error", << >>, max_results, start_offset))
    ELSE IF start_offset < 0
    THEN Return(s, SearchResponse("error", << >>, max_results, start_offset))
    ELSE
    Let(IF zim_files # None /\ zim_files[1] # << >>
        THEN SearchEngine_search_multiple_zim(s, zim_files[1], query, max_results,
                                              start_offset)
        ELSE SearchEngine_search_all_zim_files(s, query, max_results, start_offset,
                                               glob), LAMBDA r :
    IF r.exc \in CaughtBySearch
    THEN Return(r.s, SearchResponse("error", << >>, max_results, start_offset))
    ELSE IF r.exc # "none" THEN r
    ELSE Return(r.s, SearchResponse("success", r.ret, max_results, start_offset))
    )

----------------------------------------------------------------------------
(* The search tool: any sequence of calls of search_zim_files, over all    *)
(* archives or over a list, and of cache clears.                           *)

OneHit == <<"r">>
ToolQueries == {Query, OneHit}
ToolLists == {None, Some(<<SB, SA>>)}
\* the limits passed with a list, or with no list
ToolLimits(zim_files) == IF zim_files = None THEN {1, 2} ELSE {2}

AllInit ==
    /\ CacheIdle
    /\ PathIdle
    /\ indexed \in {DefaultIndexed, DOMAIN Archives}
    /\ removed = {}
    /\ archive_cache = LRUCache_init(MaxCap)
    /\ file_info_cache = EmptyDict
    /\ available_files = None
    /\ searcher_cache = EmptyDict
    /\ search_cache = LRUCache_init(MaxCap)
    /\ call = NoCall
    /\ memo = EmptyDict
    /\ page = NoPage
    /\ browse = NoBrowse
    /\ DiscoveryIdle
    /\ callers = NoCallers

SearchZimFiles(query, zim_files, max_results, start_offset, glob) ==
    \E r \in {search_zim_files(Fields, query, zim_files, max_results, start_offset, glob)} :
        Finish("search_zim_files", <<query, zim_files, max_results, start_offset>>, r)

AllEngineClearCaches ==
    \E r \in {SearchEngine_clear_caches(Fields)} :
        Finish("SearchEngine.clear_caches", << >>, r)

AllManagerClearCaches ==
    \E r \in {ZimManager_clear_caches(Fields)} :
        Finish("ZimManager.clear_caches", << >>, r)

\* the orders glob may yield when the call reads the directory
GlobNow(zim_files) ==
    IF zim_files = None /\ available_files = None THEN GlobOrders ELSE {<< >>}

AllNext ==
    \/ \E query \in ToolQueries, zim_files \in ToolLists :
            \E max_results \in ToolLimits(zim_files), glob \in GlobNow(zim_files) :
                SearchZimFiles(query, zim_files, max_results, 0, glob)
    \/ AllEngineClearCaches
    \/ AllManagerClearCaches

SpecAll == AllInit /\ [][AllNext]_vars

\* the names of the archives discovery found
Discovered ==
    IF available_files = None THEN {}
    ELSE {NameStr(available_files[1][i].filename) : i \in DOMAIN available_files[1]}

AllDiscoveredIndexed ==
    /\ available_files # None
    /\ \A i \in DOMAIN available_files[1] : available_files[1][i].has_fulltext_index

\* the last call was a search over all archives that ended with a response
SearchedAll ==
    /\ call.name = "search_zim_files"
    /\ call.exc = "none"
    /\ call.args[2] = None
    /\ call.args[4] = 0

\* C12: when every discovered archive has a full-text index, a search over
\* all archives with limit L and offset 0 returns at most L hits, each from a
\* discovered archive, in ascending title length, and has_more is true iff
\* exactly L hits were returned.
C12_SearchAllResponse ==
    (SearchedAll /\ AllDiscoveredIndexed) =>
        LET results == call.ret.results
            L == call.args[3]
        IN  /\ Len(results) <= L
            /\ call.ret.count = Len(results)
            /\ \A i \in DOMAIN results : results[i].zim_file \in Discovered
            /\ \A i, j \in DOMAIN results :
                    i < j => Len(results[i].title) <= Len(results[j].title)
            /\ call.ret.has_more <=> (Len(results) = L)

\* a search over the three indexed archives returned exactly L = 2 hits of
\* two archives, with has_more set
C12_Witness ==
    /\ SearchedAll
    /\ AllDiscoveredIndexed
    /\ Cardinality(Discovered) = 3
    /\ call.args[3] = 2
    /\ call.ret.has_more
    /\ Cardinality({call.ret.results[i].zim_file : i \in DOMAIN call.ret.results}) = 2

\* a search over the indexed archives that found one hit for L = 2: has_more
\* is not set
C12_WitnessNoMore ==
    /\ SearchedAll
    /\ AllDiscoveredIndexed
    /\ call.ret.status = "success"
    /\ call.args[3] = 2
    /\ Len(call.ret.results) = 1
    /\ ~call.ret.has_more

----------------------------------------------------------------------------
(* The search coordinator called with archive lists of every shape: a name *)
(* that holds a comma, and a list that names an archive twice.             *)

SAB == <<"a.zim", ",", "b.zim">>
OddLists == {<<SA, SB>>, <<SAB>>, <<SA, SA>>}

ListsInit ==
    /\ CacheIdle
    /\ PathIdle
    /\ WorldInit
    /\ archive_cache = LRUCache_init(MaxCap)
    /\ file_info_cache = EmptyDict
    /\ available_files = None
    /\ searcher_cache = EmptyDict
    /\ search_cache \in {LRUCache_init(n) : n \in 0..MaxCap}
    /\ call = NoCall
    /\ memo = EmptyDict
    /\ page = NoPage
    /\ browse = NoBrowse
    /\ DiscoveryIdle
    /\ callers = NoCallers

ListsSearch(zim_files, query, max_results, start_offset) ==
    \E r \in {SearchEngine_search_multiple_zim(Fields, zim_files, query,
                                               max_results, start_offset)} :
        Finish("search_multiple_zim",
               <<zim_files, query, max_results, start_offset>>, r)

ListsClearCaches ==
    \E r \in {SearchEngine_clear_caches(Fields)} :
        Finish("SearchEngine.clear_caches", << >>, r)

ListsNext ==
    \/ \E zim_files \in OddLists, max_results \in Limits, start_offset \in Offsets :
            ListsSearch(zim_files, Query, max_results, start_offset)
    \/ ListsClearCaches

SpecLists == ListsInit /\ [][ListsNext]_vars

\* the last call was a search_multiple_zim that returned a list
ReturnedList == call.name = "search_multiple_zim" /\ call.exc = "none"

\* C13: every hit a call search_multiple_zim(archives, ...) returns has its
\* zim_file among the archives of that call, whatever the result cache holds,
\* also when the list comes from an entry that a call with other arguments
\* wrote under the same cache key.
C13_HitsOfOwnArchives ==
    ReturnedList =>
        \A i \in DOMAIN call.ret : call.ret[i].zim_file \in Range(call.args[1])

\* C15: the list one search_multiple_zim call returns holds no two hits with
\* the same (zim_file, path), for every archive list, also one that names an
\* archive twice.
C15_NoDuplicateHits ==
    ReturnedList =>
        \A i, j \in DOMAIN call.ret :
            (call.ret[i].zim_file = call.ret[j].zim_file
                /\ call.ret[i].path = call.ret[j].path) => i = j

\* C14: for given archives, query, limit and offset search_multiple_zim
\* returns the same list in every reachable state of the caches: the list a
\* server with empty caches computes, also when the list is served from an
\* entry written by a call that named the archives in another order.
C14_SameListInEveryState ==
    ReturnedList =>
        call.ret = SearchEngine_search_multiple_zim(FreshServer, call.args[1],
                        call.args[2], call.args[3], call.args[4]).ret

----------------------------------------------------------------------------
(* The four search operations of SearchEngine called with valid, blank and *)
(* over-long queries.                                                       *)

\* searcher.search(query).getEstimatedMatches(): the number of paths the
\* archive's index holds for the query
GetEstimatedMatches(searcher, clean_query) ==
    Len(GetResults(searcher, clean_query, 0,
                   Len(ArchiveOnDisk[searcher.archive.file].index)))

SearchEngine_get_estimated_matches(s, zim_file, query) ==
    Let(validate_search_query(query), LAMBDA vq :
    IF vq.exc # "none"
    THEN \* ValueError, caught: return 0
         Return(s, 0)
    ELSE
    Let(SearchEngine__get_searcher(s, zim_file), LAMBDA g :
    IF g.exc # "none" THEN Raise(g.s, g.exc)
    ELSE IF g.ret = None THEN Return(g.s, 0)
    ELSE
    Let(Log(g.s, "query", g.ret[1].archive.file, g.ret[1].archive), LAMBDA s1 :
    Return(s1, GetEstimatedMatches(g.ret[1], vq.ret))
    )))

Blank == <<" ">>
LongQuery == [i \in 1..(MaxQueryLen + 1) |-> "x"]
QueryArgs == {Query, Blank, LongQuery}

QueryInit ==
    /\ CacheIdle
    /\ PathIdle
    /\ WorldInit
    /\ archive_cache = LRUCache_init(MaxCap)
    /\ file_info_cache = EmptyDict
    /\ available_files = None
    /\ searcher_cache = EmptyDict
    /\ search_cache \in {LRUCache_init(n) : n \in 1..MaxCap}
    /\ call = NoCall
    /\ memo = EmptyDict
    /\ page = NoPage
    /\ browse = NoBrowse
    /\ DiscoveryIdle
    /\ callers = NoCallers

QuerySingle(zim_file, query, max_results, start_offset) ==
    \E r \in {SearchEngine_search_single_zim(Fields, zim_file, query,
                                             max_results, start_offset)} :
        Finish("search_single_zim",
               <<zim_file, query, max_results, start_offset>>, r)

QueryMultiple(zim_files, query, max_results, start_offset) ==
    \E r \in {SearchEngine_search_multiple_zim(Fields, zim_files, query,
                                               max_results, start_offset)} :
        Finish("search_multiple_zim",
               <<zim_files, query, max_results, start_offset>>, r)

QueryAll(query, max_results, start_offset, glob) ==
    \E r \in {SearchEngine_search_all_zim_files(Fields, query, max_results,
                                                start_offset, glob)} :
        Finish("search_all_zim_files", <<query, max_results, start_offset>>, r)

QueryEstimated(zim_file, query) ==
    \E r \in {SearchEngine_get_estimated_matches(Fields, zim_file, query)} :
        Finish("get_estimated_matches", <<zim_file, query>>, r)

QueryClearCaches ==
    \E r \in {ZimManager_clear_caches(Fields)} :
        Finish("ZimManager.clear_caches", << >>, r)

QueryNext ==
    \/ \E zim_file \in {SA, SC}, query \in QueryArgs, max_results \in Limits :
            QuerySingle(zim_file, query, max_results, 0)
    \/ \E query \in QueryArgs, max_results \in Limits :
            QueryMultiple(<<SA, SB>>, query, max_results, 0)
    \/ \E query \in QueryArgs, glob \in GlobNow(None) :
            QueryAll(query, 2, 0, glob)
    \/ \E zim_file \in {SA, SC}, query \in QueryArgs :
            QueryEstimated(zim_file, query)
    \/ QueryClearCaches

SpecQuery == QueryInit /\ [][QueryNext]_vars

\* the query argument of a finished search operation
SearchOps == {"search_single_zim", "search_multiple_zim",
              "search_all_zim_files", "get_estimated_matches"}
QueryOf(c) == IF c.name = "search_all_zim_files" THEN c.args[1] ELSE c.args[2]
InvalidQuery(c) ==
    c.name \in SearchOps /\ validate_search_query(QueryOf(c)).exc # "none"

\* C16: search_single_zim called with a query that is empty after trimming,
\* or longer than 1000 characters after trimming, ends with an error, so its
\* caller can tell it from a search that succeeded with zero hits.
C16_InvalidQueryFails ==
    (call.name = "search_single_zim" /\ InvalidQuery(call)) => call.exc # "none"

C17_Step ==
    InvalidQuery(call') =>
        /\ UNCHANGED <<archive_cache, file_info_cache, available_files,
                       searcher_cache, search_cache>>
        /\ \A i \in DOMAIN call'.log : call'.log[i].ev # "open"

\* C17: a search operation (search_single_zim, search_multiple_zim,
\* search_all_zim_files, get_estimated_matches) called with an invalid query
\* leaves the handle cache, the descriptor cache, the discovery memo, the
\* searcher cache and the result cache as they were and opens no archive.
C17_InvalidQueryTouchesNothing == [][C17_Step]_vars

----------------------------------------------------------------------------
(* server.py: the search_zim_files tool on a server whose cache sizes are  *)
(* read from the environment (config.py: int(os.getenv(...)), any integer) *)
(* and whose archive files may be deleted while the server runs.           *)

CacheSizes == {0, MaxCap}
FaultLists == {Some(<<SA>>), Some(<<SA, SB>>)}

FaultInit ==
    /\ CacheIdle
    /\ PathIdle
    /\ WorldInit
    /\ archive_cache \in {LRUCache_init(n) : n \in CacheSizes}
    /\ file_info_cache = EmptyDict
    /\ available_files = None
    /\ searcher_cache = EmptyDict
    /\ search_cache \in {LRUCache_init(n) : n \in CacheSizes}
    /\ call = NoCall
    /\ memo = EmptyDict
    /\ page = NoPage
    /\ browse = NoBrowse
    /\ DiscoveryIdle
    /\ callers = NoCallers

FaultSearch(query, zim_files, max_results, start_offset) ==
    \E r \in {search_zim_files(Fields, query, zim_files, max_results,
                               start_offset, << >>)} :
        Finish("search_zim_files",
               <<query, zim_files, max_results, start_offset>>, r)

\* an archive file is deleted from the directory; handles that are open on
\* it stay usable
RemoveFile(place) ==
    /\ place \in RegularFiles \ removed
    /\ removed' = removed \cup {place}
    /\ UNCHANGED <<cacheVars, pathVars, sysVars, indexed, browse, discoveryVars, callers>>

FaultNext ==
    \/ \E zim_files \in FaultLists, max_results \in Limits :
            FaultSearch(Query, zim_files, max_results, 0)
    \/ RemoveFile(<<"srv", "a.zim">>)

SpecFault == FaultInit /\ [][FaultNext]_vars

\* C18: no operation lets a fault escape: with every cache size and every
\* failure of the archives (an archive whose searcher is cached is deleted,
\* so that get_archive returns None), a call ends with a response, of empty
\* result or of status "error", and never with an exception.
C18_NoFaultEscapes == call.exc = "none"

\* the fault of C18 that does not need a cache of size 0
C18_NoFaultWithRoom ==
    (archive_cache.max_size > 0 /\ search_cache.max_size > 0) => call.exc = "none"

----------------------------------------------------------------------------
\* C20: a cache with capacity <= 0 is rejected when it is constructed, so
\* every cache that exists, and every cache a put is called on, has a
\* capacity of at least 1.
C20_PutOnlyWithCapacity == op.name = "put" => lru.max_size >= 1

----------------------------------------------------------------------------
(* utils.py: LRUCache.get and LRUCache.put run by several callers at once. *)
(* The class holds no lock, so a caller may be preempted between any two   *)
(* statements; each action below is one statement of one caller.           *)

MaxCalls == 2      \* calls each caller makes

ThreadInit ==
    /\ PathIdle
    /\ SysIdle
    /\ lru \in {LRUCache_init(n) : n \in 1..MaxCap}
    /\ stamp = [k \in Keys |-> 0]
    /\ clock = 0
    /\ op = NoOp
    /\ run = << >>
    /\ threads = NoThreads

\* caller t moves to position pc
Goto(t, pc) ==
    /\ threads' = [threads EXCEPT ![t].pc = pc]
    /\ UNCHANGED lru

\* the call of caller t ends, with a return value or an exception
Done(t, ret, exc) ==
    threads' = [threads EXCEPT ![t].pc = "idle", ![t].ret = ret, ![t].exc = exc]

Frame == UNCHANGED <<stamp, clock, op, run, pathVars, sysVars, worldVars, discoveryVars, callers, browse>>

\* caller t calls cache.get(key) or cache.put(key, "v")
ThreadCall(t, name, key) ==
    /\ threads[t].pc = "idle"
    /\ threads[t].calls < MaxCalls
    /\ threads' = [threads EXCEPT ![t] =
            [pc |-> name, key |-> key, oldest_key |-> 0, ret |-> None,
             exc |-> "none", calls |-> @.calls + 1]]
    /\ UNCHANGED lru
    /\ Frame

\* get: if key in self.cache
GetTest(t) ==
    /\ threads[t].pc = "get"
    /\ IF threads[t].key \in DOMAIN lru.cache
       THEN Goto(t, "get_remove")
       ELSE Done(t, None, "none") /\ UNCHANGED lru
    /\ Frame

\* get: self.access_order.remove(key)
GetRemove(t) ==
    /\ threads[t].pc = "get_remove"
    /\ IF threads[t].key \in Range(lru.access_order)
       THEN /\ lru' = [lru EXCEPT !.access_order = ListRemove(@, threads[t].key)]
            /\ threads' = [threads EXCEPT ![t].pc = "get_append"]
       ELSE Done(t, None, "ValueError") /\ UNCHANGED lru
    /\ Frame

\* get: self.access_order.append(key)
GetAppend(t) ==
    /\ threads[t].pc = "get_append"
    /\ lru' = [lru EXCEPT !.access_order = Append(@, threads[t].key)]
    /\ threads' = [threads EXCEPT ![t].pc = "get_return"]
    /\ Frame

\* get: return self.cache[key]
GetReturn(t) ==
    /\ threads[t].pc = "get_return"
    /\ IF threads[t].key \in DOMAIN lru.cache
       THEN Done(t, Some(lru.cache[threads[t].key]), "none")
       ELSE Done(t, None, "KeyError")
    /\ UNCHANGED lru
    /\ Frame

\* put: if key in self.cache
PutTest(t) ==
    /\ threads[t].pc = "put"
    /\ Goto(t, IF threads[t].key \in DOMAIN lru.cache THEN "put_update"
               ELSE "put_full")
    /\ Frame

\* put, update existing: self.cache[key] = value
PutUpdate(t) ==
    /\ threads[t].pc = "put_update"
    /\ lru' = [lru EXCEPT !.cache = DictSet(@, threads[t].key, "v")]
    /\ threads' = [threads EXCEPT ![t].pc = "put_remove"]
    /\ Frame

\* put, update existing: self.access_order.remove(key)
PutRemove(t) ==
    /\ threads[t].pc = "put_remove"
    /\ IF threads[t].key \in Range(lru.access_order)
       THEN /\ lru' = [lru EXCEPT !.access_order = ListRemove(@, threads[t].key)]
            /\ threads' = [threads EXCEPT ![t].pc = "put_append"]
       ELSE Done(t, None, "ValueError") /\ UNCHANGED lru
    /\ Frame

\* put, add new: if len(self.cache) >= self.max_size
PutFull(t) ==
    /\ threads[t].pc = "put_full"
    /\ Goto(t, IF Cardinality(DOMAIN lru.cache) >= lru.max_size THEN "put_pop"
               ELSE "put_insert")
    /\ Frame

\* put, add new: oldest_key = self.access_order.pop(0)
PutPop(t) ==
    /\ threads[t].pc = "put_pop"
    /\ IF lru.access_order # << >>
       THEN /\ lru' = [lru EXCEPT !.access_order = Tail(@)]
            /\ threads' = [threads EXCEPT ![t].pc = "put_del",
                                          ![t].oldest_key = Head(lru.access_order)]
       ELSE Done(t, None, "IndexError") /\ UNCHANGED lru
    /\ Frame

\* put, add new: del self.cache[oldest_key]
PutDel(t) ==
    /\ threads[t].pc = "put_del"
    /\ IF threads[t].oldest_key \in DOMAIN lru.cache
       THEN /\ lru' = [lru EXCEPT !.cache = DictDel(@, threads[t].oldest_key)]
            /\ threads' = [threads EXCEPT ![t].pc = "put_insert"]
       ELSE Done(t, None, "KeyError") /\ UNCHANGED lru
    /\ Frame

\* put, add new: self.cache[key] = value
PutInsert(t) ==
    /\ threads[t].pc = "put_insert"
    /\ lru' = [lru EXCEPT !.cache = DictSet(@, threads[t].key, "v")]
    /\ threads' = [threads EXCEPT ![t].pc = "put_append"]
    /\ Frame

\* put, either branch: self.access_order.append(key)
PutAppend(t) ==
    /\ threads[t].pc = "put_append"
    /\ lru' = [lru EXCEPT !.access_order = Append(@, threads[t].key)]
    /\ Done(t, None, "none")
    /\ Frame

ThreadNext ==
    \E t \in Threads :
        \/ \E name \in {"get", "put"}, key \in Keys : ThreadCall(t, name, key)
        \/ GetTest(t)
        \/ GetRemove(t)
        \/ GetAppend(t)
        \/ GetReturn(t)
        \/ PutTest(t)
        \/ PutUpdate(t)
        \/ PutRemove(t)
        \/ PutFull(t)
        \/ PutPop(t)
        \/ PutDel(t)
        \/ PutInsert(t)
        \/ PutAppend(t)

SpecThreads == ThreadInit /\ [][ThreadNext]_vars

\* no caller is inside a call
Quiescent == \A t \in Threads : threads[t].pc = "idle"

\* C19: with two callers running get and put on one cache at once, every get
\* and put is atomic: whenever no call is under way, the keys of the value
\* map are the elements of access_order, each once, the size is at most the
\* capacity, and no call has raised an error.
C19_ConcurrentCallsAtomic ==
    Quiescent =>
        /\ DOMAIN lru.cache = Range(lru.access_order)
        /\ Len(lru.access_order) = Cardinality(DOMAIN lru.cache)
        /\ Cardinality(DOMAIN lru.cache) <= lru.max_size
        /\ \A t \in Threads : threads[t].exc = "none"

\* the parts of C19 one by one
C19_NoDuplicateOrder ==
    Quiescent => /\ DOMAIN lru.cache = Range(lru.access_order)
                 /\ Len(lru.access_order) = Cardinality(DOMAIN lru.cache)
C19_SizeWithinCapacity ==
    Quiescent => Cardinality(DOMAIN lru.cache) <= lru.max_size
C19_NoError == \A t \in Threads : threads[t].exc = "none"

----------------------------------------------------------------------------
(* zim_manager.py: the handle cache of a ZimManager, reached through       *)
(* get_archive and validate_zim_file under names of every kind: two names  *)
(* of one file, a file in a subdirectory, an archive under another         *)
(* extension, a directory, a name that leaves the root.                    *)

SameA == <<"zim", "/", "..", "/", "a.zim">>
SubA == <<"zim", "/", "a.zim">>
SD == <<"d.dat">>
SDir == <<"zim">>
HandleNames == {SA, SameA, SB, SubA, SD, SDir, SEscape}

HandlesInit ==
    /\ CacheIdle
    /\ PathIdle
    /\ WorldInit
    /\ archive_cache \in {LRUCache_init(n) : n \in 1..MaxCap}
    /\ file_info_cache = EmptyDict
    /\ available_files = None
    /\ searcher_cache = EmptyDict
    /\ search_cache = LRUCache_init(MaxCap)
    /\ call = NoCall
    /\ memo = EmptyDict
    /\ page = NoPage
    /\ browse = NoBrowse
    /\ DiscoveryIdle
    /\ callers = NoCallers

HandlesNext ==
    \/ \E filename \in HandleNames : GetArchive(filename)
    \/ \E filename \in HandleNames : ValidateZimFile(filename)
    \/ ManagerClearCaches

SpecHandles == HandlesInit /\ [][HandlesNext]_vars

\* the canonical path a name stands for, when the sandbox accepts the name
Accepted(filename) ==
    validate_zim_file_path(PathOfStr(filename), zim_files_directory).exc = "none"
CanonicalOf(filename) ==
    validate_zim_file_path(PathOfStr(filename), zim_files_directory).ret[1].parts

\* the handles a call opened
Opened(c) == {c.log[i].h : i \in {j \in DOMAIN c.log : c.log[j].ev = "open"}}

C21_Step ==
    call'.name = "get_archive" =>
        LET filename == call'.args[1]
            cached == Accepted(filename)
                        /\ CanonicalOf(filename) \in DOMAIN archive_cache.cache
        IN  /\ cached =>
                /\ call'.ret = Some(archive_cache.cache[CanonicalOf(filename)])
                /\ Opened(call') = {}
                /\ archive_cache'.cache = archive_cache.cache
            /\ Opened(call') # {} =>
                /\ ~cached
                /\ Opened(call') = {call'.ret[1]}
                /\ archive_cache'.cache[CanonicalOf(filename)] = call'.ret[1]

\* C21: get_archive reuses handles.  While the entry of a canonical path is
\* in the handle cache, get_archive of any name with that canonical path
\* returns the cached handle, which is the one the call that opened it
\* returned, and opens nothing; an archive is opened only on a miss of the
\* handle cache.
C21_HandlesReused == [][C21_Step]_vars

\* a handle opened under one name is returned under another name of the file
C21_Witness ==
    /\ call.name = "get_archive"
    /\ call.args = <<SameA>>
    /\ call.ret # None
    /\ Opened(call) = {}
    /\ <<"srv", "a.zim">> \in DOMAIN archive_cache.cache
    /\ call.ret[1] = archive_cache.cache[<<"srv", "a.zim">>]

\* C26: validate_zim_file(name) returns true exactly when the sandbox
\* accepts the name, the resolved path exists, is a regular file, has the
\* .zim extension, and get_archive(name) succeeds; so it returns false for a
\* directory and for a file with another extension.
C26_ValidateIffZimArchive ==
    (call.name = "validate_zim_file" /\ call.exc = "none") =>
        LET filename == call.args[1]
        IN  call.ret <=>
                /\ Accepted(filename)
                /\ CanonicalOf(filename) \in RegularFiles \ removed
                /\ HasZimSuffix(MkPath(TRUE, CanonicalOf(filename)))
                /\ ArchiveOpens(MkPath(TRUE, CanonicalOf(filename)))

----------------------------------------------------------------------------
(* zim_manager.py: the registry of a ZimManager: handles, descriptors and  *)
(* the discovery memo, with a file a.zim in the root and another a.zim in  *)
(* the subdirectory zim.                                                   *)

RegistryNames == {SA, SubA, SB}

RegistryInit ==
    /\ CacheIdle
    /\ PathIdle
    /\ WorldInit
    /\ archive_cache \in {LRUCache_init(n) : n \in 1..MaxCap}
    /\ file_info_cache = EmptyDict
    /\ available_files = None
    /\ searcher_cache = EmptyDict
    /\ search_cache = LRUCache_init(MaxCap)
    /\ call = NoCall
    /\ memo = EmptyDict
    /\ page = NoPage
    /\ browse = NoBrowse
    /\ DiscoveryIdle
    /\ callers = NoCallers

RegistryNext ==
    \/ \E filename \in RegistryNames : GetArchive(filename)
    \/ \E filename \in RegistryNames : GetZimFileInfo(filename)
    \/ \E force_refresh \in BOOLEAN, glob \in GlobOrders :
            DiscoverZimFiles(force_refresh, glob)
    \/ ManagerClearCaches

SpecRegistry == RegistryInit /\ [][RegistryNext]_vars

C22_Step ==
    call'.name = "get_zim_file_info" =>
        \A h \in Opened(call') :
            /\ h.file \notin DOMAIN archive_cache.cache
            /\ h.file \in DOMAIN archive_cache'.cache
            /\ archive_cache'.cache[h.file] = h

\* C22: a describe (get_zim_file_info) that misses the descriptor cache gets
\* the archive through the handle cache: the handle it opens is in the handle
\* cache afterwards, and it opens no archive for a file whose handle is
\* cached.
C22_DescribeUsesHandleCache == [][C22_Step]_vars

\* C23: the descriptor returned for a name is the descriptor of the file the
\* name resolves to (its filepath is the resolved path), so two names that
\* resolve to different files under the root never get the same descriptor.
C23_DescriptorOfResolvedFile ==
    (call.name = "get_zim_file_info" /\ call.ret # None) =>
        call.ret[1].filepath.parts = CanonicalOf(call.args[1])

\* the list a discovery returned enumerated the directory
Enumerated(c) == \E i \in DOMAIN c.log : c.log[i].ev = "glob"

C24_Step ==
    /\ call'.name = "discover_zim_files" =>
        IF available_files # None /\ ~call'.args[1]
        THEN /\ call'.ret = available_files[1]
             /\ call'.log = << >>
             /\ UNCHANGED <<archive_cache, file_info_cache, available_files>>
        ELSE /\ Enumerated(call')
             /\ available_files' = Some(call'.ret)
    /\ call'.name \notin {"discover_zim_files", "ZimManager.clear_caches"} =>
        UNCHANGED available_files

\* C24: discover_zim_files memoizes.  Once a discovery has completed, a call
\* with force_refresh false returns the memoized list without enumerating
\* the directory or opening an archive, and only clear_caches removes the
\* memo; a call with force_refresh true enumerates the directory again and
\* replaces the memo by the list it built.
C24_DiscoverMemoizes == [][C24_Step]_vars

\* a call served from the memo
C24_Witness ==
    /\ call.name = "discover_zim_files"
    /\ call.args = <<FALSE>>
    /\ call.log = << >>
    /\ Len(call.ret) = 3
    /\ available_files = Some(call.ret)

\* a forced call that replaced the memo
C24_WitnessForced ==
    /\ call.name = "discover_zim_files"
    /\ call.args = <<TRUE>>
    /\ Enumerated(call)
    /\ Opened(call) = {}
    /\ available_files = Some(call.ret)

\* C25: the list discover_zim_files returns is sorted by filename, in
\* whatever order the enumeration of the directory yields the files.
C25_DiscoveredSorted ==
    call.name = "discover_zim_files" =>
        \A i, j \in DOMAIN call.ret :
            i < j => TokenRank[call.ret[i].filename] <= TokenRank[call.ret[j].filename]

C27_Step ==
    /\ call'.name = "ZimManager.clear_caches" =>
        /\ LRUCache_size(archive_cache') = 0
        /\ archive_cache'.cache = EmptyDict
        /\ archive_cache'.access_order = << >>
        /\ file_info_cache' = EmptyDict
        /\ available_files' = None
    /\ call.name = "ZimManager.clear_caches" =>
        /\ (call'.name \in {"get_archive", "get_zim_file_info"} /\ call'.ret # None)
                => Opened(call') # {}
        /\ call'.name = "discover_zim_files" => Enumerated(call')

\* C27: after clear_caches, from any state, the handle cache is empty (size
\* 0, no recency order), the descriptor cache is empty and the discovery
\* memo is absent, so the next get_archive and describe open the archive
\* again and the next discover enumerates the directory again.
C27_ClearEmptiesRegistry == [][C27_Step]_vars

\* clear_caches emptied a handle cache that held two handles
C27_Witness ==
    /\ call.name = "ZimManager.clear_caches"
    /\ Len(call.log) = 2
    /\ \A i \in DOMAIN call.log : call.log[i].ev = "drop"
    /\ archive_cache.cache = EmptyDict
    /\ file_info_cache = EmptyDict
    /\ available_files = None

----------------------------------------------------------------------------
(* search_engine.py: search_single_zim on archives whose index names paths *)
(* that have no entry.                                                     *)

SingleFiles == {SA, SubA, SC}

SingleInit ==
    /\ CacheIdle
    /\ PathIdle
    /\ WorldInit
    /\ archive_cache \in {LRUCache_init(n) : n \in 1..MaxCap}
    /\ file_info_cache = EmptyDict
    /\ available_files = None
    /\ searcher_cache = EmptyDict
    /\ search_cache = LRUCache_init(MaxCap)
    /\ call = NoCall
    /\ memo = EmptyDict
    /\ page = NoPage
    /\ browse = NoBrowse
    /\ DiscoveryIdle
    /\ callers = NoCallers

SingleNext ==
    \/ \E zim_file \in SingleFiles, query \in ToolQueries,
          max_results \in 1..MaxPage, start_offset \in Offsets :
            SearchSingleZim(zim_file, query, max_results, start_offset)
    \/ EngineClearCaches
    \/ ManagerClearCaches

SpecSingle == SingleInit /\ [][SingleNext]_vars

\* the paths the searcher of an archive yields for a query, from the
\* offset-th on, at most limit of them
PathsFound(place, query, limit, offset) ==
    LET all == IF query = Query THEN ArchiveOnDisk[place].index
               ELSE IF query = OneHit THEN ArchiveOnDisk[place].rare
               ELSE << >>
    IN  SubSeq(all, offset + 1,
               IF offset + limit < Len(all) THEN offset + limit ELSE Len(all))

\* one hit for each of the paths that has an entry, in the order of the paths
HitsOfResolvable(zim_file, place, paths) ==
    LET entries == ArchiveOnDisk[place].entries
        resolvable == SelectSeq(paths, LAMBDA p : p \in DOMAIN entries)
    IN  [i \in 1..Len(resolvable) |->
            [zim_file |-> zim_file, path |-> resolvable[i],
             title |-> entries[resolvable[i]].title,
             is_redirect |-> entries[resolvable[i]].is_redirect]]

\* C28: in search_single_zim a result path whose entry look-up fails is
\* skipped and the paths after it are still processed: the returned list
\* holds exactly one hit for each path of the result set that resolves to an
\* entry, in the searcher's order, and never more than limit hits.
C28_UnresolvablePathsSkipped ==
    call.name = "search_single_zim" =>
        LET zim_file == call.args[1]
            place == CanonicalOf(zim_file)
            paths == PathsFound(place, call.args[2], call.args[3], call.args[4])
        IN  /\ call.exc = "none"
            /\ Len(call.ret) <= call.args[3]
            /\ call.ret = IF ArchiveOnDisk[place].has_fulltext_index
                          THEN HitsOfResolvable(zim_file, place, paths)
                          ELSE << >>

\* the index yields Z1, Z0, Z2; Z0 has no entry, Z1 and Z2 are returned
C28_Witness ==
    /\ call.name = "search_single_zim"
    /\ call.args = <<SubA, Query, 3, 0>>
    /\ Len(call.ret) = 2
    /\ call.ret[1].path = "Z1"
    /\ call.ret[2].path = "Z2"

\* the only path found has no entry: an empty list, not a failure
C28_WitnessNone ==
    /\ call.name = "search_single_zim"
    /\ call.args[1] = SubA
    /\ call.args[2] = OneHit
    /\ call.args[4] = 0
    /\ call.exc = "none"
    /\ call.ret = << >>
    /\ \E i \in DOMAIN call.log : call.log[i].ev = "lookup"

----------------------------------------------------------------------------
(* search_engine.py: browse_entries_by_pattern.  The loop is run draw by   *)
(* draw: archive.get_random_entry() yields any entry of the archive, or    *)
(* fails.  A path is a str of the characters of its name.                  *)

MaxLimit == 2      \* limits 0..MaxLimit passed to browse_entries_by_pattern
Attempts == 5      \* the factor of range(limit * 5)

\* str.lower()
LowerOf == ("A" :> "a") @@ ("B" :> "b") @@ ("D" :> "d")
StrLower(str) ==
    [i \in DOMAIN str |-> IF str[i] \in DOMAIN LowerOf THEN LowerOf[str[i]] ELSE str[i]]

\* a in b, for str
StrIn(a, b) ==
    \E i \in 0..(Len(b) - Len(a)) : SubSeq(b, i + 1, i + Len(a)) = a

\* entry.path as a str
PathStr(path) == (("D1" :> <<"D", "1">>) @@ ("D2" :> <<"D", "2">>))[path]

\* the loop of browse_entries_by_pattern without the break on count >= limit
BrowseLoopRuns_nobreak(draws, count, limit) == draws < limit * Attempts

\* for _ in range(limit * 5): if count >= limit: break
BrowseLoopRuns(draws, count, limit) ==
    draws < limit * Attempts /\ ~(count >= limit)

\* the test of an entry against the patterns; "if path_pattern and ..." skips
\* a pattern that is None or empty
BrowseMatch(entry, path_pattern, title_pattern) ==
    /\ ~(path_pattern # None /\ path_pattern[1] # << >>
            /\ ~StrIn(StrLower(path_pattern[1]), StrLower(PathStr(entry.path))))
    /\ ~(title_pattern # None /\ title_pattern[1] # << >>
            /\ ~StrIn(StrLower(title_pattern[1]), StrLower(entry.title)))

BrowseFiles == {SD, SEscape}
PathPatterns == {None, Some(<<"d">>), Some(<<"2">>)}
TitlePatterns == {None, Some(<<"A">>), Some(<< >>)}

BrowseInit ==
    /\ CacheIdle
    /\ PathIdle
    /\ WorldInit
    /\ archive_cache = LRUCache_init(MaxCap)
    /\ file_info_cache = EmptyDict
    /\ available_files = None
    /\ searcher_cache = EmptyDict
    /\ search_cache = LRUCache_init(MaxCap)
    /\ call = NoCall
    /\ memo = EmptyDict
    /\ page = NoPage
    /\ browse = NoBrowse
    /\ DiscoveryIdle
    /\ callers = NoCallers

\* the call begins: archive = self.zim_manager.get_archive(zim_file); without
\* an archive it returns [] at once
BrowseStart(zim_file, path_pattern, title_pattern, limit) ==
    /\ browse.pc # "loop"
    /\ \E r \in {ZimManager_get_archive(Fields, zim_file)} :
        /\ Ends("get_archive", <<zim_file>>, r)
        /\ browse' = [pc |-> IF r.exc = "none" /\ r.ret # None THEN "loop" ELSE "done",
                      zim_file |-> zim_file, path_pattern |-> path_pattern,
                      title_pattern |-> title_pattern, limit |-> limit,
                      archive |-> IF r.exc = "none" /\ r.ret # None THEN r.ret[1]
                                  ELSE NoHandle,
                      draws |-> 0, count |-> 0, results |-> << >>]
    /\ UNCHANGED <<memo, page>>

\* one turn of the loop: a random entry is drawn and kept if it matches
BrowseDraw(path) ==
    /\ browse.pc = "loop"
    /\ BrowseLoopRuns(browse.draws, browse.count, browse.limit)
    /\ path \in DOMAIN ArchiveOnDisk[browse.archive.file].entries
    /\ LET entry == [path |-> path,
                     title |-> ArchiveOnDisk[browse.archive.file].entries[path].title,
                     is_redirect |->
                         ArchiveOnDisk[browse.archive.file].entries[path].is_redirect]
           match == BrowseMatch(entry, browse.path_pattern, browse.title_pattern)
       IN  browse' = [browse EXCEPT
                !.draws = @ + 1,
                !.count = IF match THEN @ + 1 ELSE @,
                !.results = IF match
                            THEN Append(@, [zim_file |-> browse.zim_file,
                                            path |-> entry.path,
                                            title |-> entry.title,
                                            is_redirect |-> entry.is_redirect])
                            ELSE @]
    /\ UNCHANGED <<cacheVars, pathVars, sysVars, worldVars, discoveryVars, callers>>

\* one turn of the loop in which get_random_entry raises RuntimeError, which
\* is caught: continue
BrowseDrawFails ==
    /\ browse.pc = "loop"
    /\ BrowseLoopRuns(browse.draws, browse.count, browse.limit)
    /\ browse' = [browse EXCEPT !.draws = @ + 1]
    /\ UNCHANGED <<cacheVars, pathVars, sysVars, worldVars, discoveryVars, callers>>

\* the loop is over: return results
BrowseReturn ==
    /\ browse.pc = "loop"
    /\ ~BrowseLoopRuns(browse.draws, browse.count, browse.limit)
    /\ browse' = [browse EXCEPT !.pc = "done"]
    /\ call' = [name |-> "browse_entries_by_pattern",
                args |-> <<browse.zim_file, browse.path_pattern,
                           browse.title_pattern, browse.limit>>,
                ret |-> browse.results, exc |-> "none", log |-> << >>]
    /\ UNCHANGED <<archive_cache, file_info_cache, available_files,
                   searcher_cache, search_cache, memo, page>>
    /\ UNCHANGED <<cacheVars, pathVars, worldVars, discoveryVars, callers>>

BrowseStep ==
    \/ \E path \in {"D1", "D2"} : BrowseDraw(path)
    \/ BrowseDrawFails
    \/ BrowseReturn

BrowseNext ==
    \/ \E zim_file \in BrowseFiles, path_pattern \in PathPatterns,
          title_pattern \in TitlePatterns, limit \in 0..MaxLimit :
            BrowseStart(zim_file, path_pattern, title_pattern, limit)
    \/ BrowseStep

\* the interpreter runs a call that has begun to its end
SpecBrowse == BrowseInit /\ [][BrowseNext]_vars /\ WF_vars(BrowseStep)

\* a in b whatever the case of the letters
InNoCase(a, b) ==
    \E i \in 1..(Len(b) - Len(a) + 1) :
        \A k \in 1..Len(a) : StrLower(<<a[k]>>) = StrLower(<<b[i + k - 1]>>)

C29_Bounded ==
    /\ browse.draws <= 5 * browse.limit
    /\ Len(browse.results) <= browse.limit
    /\ \A i \in DOMAIN browse.results :
        /\ browse.path_pattern # None =>
              InNoCase(browse.path_pattern[1], PathStr(browse.results[i].path))
        /\ browse.title_pattern # None =>
              InNoCase(browse.title_pattern[1], browse.results[i].title)

C29_DrawStep ==
    browse'.draws > browse.draws => Len(browse.results) < browse.limit

\* C29: browse_entries_by_pattern always terminates, after at most 5 * limit
\* random draws; it returns at most limit hits; the path of every hit
\* contains path_pattern and its title contains title_pattern, whatever the
\* case of the letters, for each pattern that is given; and no draw is made
\* once limit matches are found.
C29_BrowseBounded ==
    /\ []C29_Bounded
    /\ [][C29_DrawStep]_vars
    /\ (browse.pc = "loop") ~> (browse.pc = "done")

\* a call that stopped at limit matches before its draws were used up
C29_Witness ==
    /\ browse.pc = "done"
    /\ call.name = "browse_entries_by_pattern"
    /\ browse.limit = 2
    /\ Len(call.ret) = 2
    /\ browse.draws < 5 * browse.limit
    /\ browse.title_pattern = Some(<<"A">>)

\* a call that used all its draws and found fewer than limit matches
C29_WitnessExhausted ==
    /\ browse.pc = "done"
    /\ call.name = "browse_entries_by_pattern"
    /\ browse.draws = 5 * browse.limit
    /\ Len(call.ret) < browse.limit
    /\ browse.path_pattern = Some(<<"2">>)

----------------------------------------------------------------------------
(* content_extractor.py: the extraction of one entry.  A str is the        *)
(* sequence of its characters and bytes are the sequence of their values;  *)
(* an ASCII byte is written as its character.                               *)

MaxContent == 4        \* config.max_content_length is drawn from 0..MaxContent
PreviewLength == 200   \* extract_text_preview(formatted_content, 200)

\* the entry a redirect entry leads to
RedirectOf == ("A3" :> "A1") @@ ("D2" :> "D1")

\* the bytes of the item of each entry that is no redirect.  "C3" "A9" is
\* the UTF-8 form of one character; "FF" is in no UTF-8 text.  No content
\* holds a title, meta, img or a tag.
ItemContent ==
    ("A1" :> <<"<", "p", ">", "l", " ", " ", "a", "<", "/", "p", ">">>) @@
    ("A2" :> <<"C3", "A9", "FF", "v", "<", ">", "\n">>) @@
    ("D1" :> <<"C3", "A9", "d">>)

\* entry.get_item().content: get_item follows a redirect
ItemBytes(path) ==
    ItemContent[IF path \in DOMAIN RedirectOf THEN RedirectOf[path] ELSE path]

Utf8Lead == {"C3"}
Utf8Next == {"A9"}
Utf8Two == <<"C3", "A9">> :> "e'"
Latin1 == ("C3" :> "A~") @@ ("A9" :> "(c)") @@ ("FF" :> "y:")

\* whether content_bytes.decode('utf-8') succeeds
RECURSIVE Utf8Valid(_)
Utf8Valid(bytes) ==
    IF bytes = << >> THEN TRUE
    ELSE IF Head(bytes) \in Utf8Lead
    THEN Len(bytes) >= 2 /\ bytes[2] \in Utf8Next /\ Utf8Valid(Tail(Tail(bytes)))
    ELSE Head(bytes) \notin (Utf8Next \cup {"FF"}) /\ Utf8Valid(Tail(bytes))

\* content_bytes.decode('utf-8') of valid bytes
RECURSIVE Utf8Decode(_)
Utf8Decode(bytes) ==
    IF bytes = << >> THEN << >>
    ELSE IF Head(bytes) \in Utf8Lead
    THEN <<Utf8Two[SubSeq(bytes, 1, 2)]>> \o Utf8Decode(Tail(Tail(bytes)))
    ELSE <<Head(bytes)>> \o Utf8Decode(Tail(bytes))

\* _decode_content: UTF-8, else Latin-1, which decodes every byte
ContentExtractor__decode_content(content_bytes) ==
    IF Utf8Valid(content_bytes) THEN Utf8Decode(content_bytes)
    ELSE [i \in DOMAIN content_bytes |->
            IF content_bytes[i] \in DOMAIN Latin1 THEN Latin1[content_bytes[i]]
            ELSE content_bytes[i]]

\* text[:n]
SliceTo(text, n) ==
    IF n >= 0 THEN SubSeq(text, 1, IF n < Len(text) THEN n ELSE Len(text))
    ELSE SubSeq(text, 1, Len(text) + n)

TruncateSuffix == <<".", ".", ".">>

truncate_text(text, max_length, suffix) ==
    IF Len(text) <= max_length THEN text
    ELSE SliceTo(text, max_length - Len(suffix)) \o suffix

\* re.sub(r'<[^>]+>', '', html_content)
RECURSIVE StripTags(_)
StripTags(str) ==
    IF str = << >> THEN << >>
    ELSE IF /\ Head(str) = "<"
            /\ \E j \in 3..Len(str) : str[j] = ">"
            /\ str[2] # ">"
    THEN StripTags(SubSeq(str, 1 + (CHOOSE j \in 3..Len(str) :
                                        /\ str[j] = ">"
                                        /\ \A k \in 3..(j - 1) : str[k] # ">"),
                          Len(str)))
    ELSE <<Head(str)>> \o StripTags(Tail(str))

WhiteSpace == {" ", "\n"}

\* re.sub(r'\s+', ' ', clean_text)
RECURSIVE SquashSpace(_)
SquashSpace(str) ==
    IF str = << >> THEN << >>
    ELSE IF Head(str) \in WhiteSpace
    THEN IF Len(str) >= 2 /\ str[2] \in WhiteSpace THEN SquashSpace(Tail(str))
         ELSE <<" ">> \o SquashSpace(Tail(str))
    ELSE <<Head(str)>> \o SquashSpace(Tail(str))

clean_html_content(html_content) == StrStrip(SquashSpace(StripTags(html_content)))

extract_text_preview(content, max_length) ==
    truncate_text(IF (\E i \in DOMAIN content : content[i] = "<")
                        /\ (\E i \in DOMAIN content : content[i] = ">")
                  THEN clean_html_content(content) ELSE content,
                  max_length, TruncateSuffix)

ContentExtractor__format_content(content, format_type) ==
    IF format_type = "text" THEN clean_html_content(content)
    ELSE IF format_type = "html" THEN content
    ELSE IF format_type = "raw" THEN content
    ELSE clean_html_content(content)

\* _extract_metadata: none of its four patterns is in a content of ItemContent
ContentExtractor__extract_metadata(content) == EmptyDict

\* the content of the payload of a redirect, kept as one token
RedirectContent == <<"[This is a redirect]">>
RedirectPreview == <<"[Redirect]">>

\* ZimManager.get_entry_by_path; an entry is the archive it came from, its
\* path, its title and whether it is a redirect
ZimManager_get_entry_by_path(s, filename, entry_path) ==
    Let(ZimManager_get_archive(s, filename), LAMBDA a :
    IF a.exc # "none"
    THEN \* IndexError is not among (KeyError, ValueError, RuntimeError, OSError)
         Raise(a.s, a.exc)
    ELSE IF a.ret = None THEN Return(a.s, None)
    ELSE
    Let(a.ret[1], LAMBDA archive :
    Let(Log(a.s, "lookup", archive.file, archive), LAMBDA s1 :
    IF entry_path \notin DOMAIN ArchiveOnDisk[archive.file].entries
    THEN Return(s1, None)
    ELSE Return(s1, Some([archive |-> archive, path |-> entry_path,
            title |-> ArchiveOnDisk[archive.file].entries[entry_path].title,
            is_redirect |->
                ArchiveOnDisk[archive.file].entries[entry_path].is_redirect]))
    )))

\* _extract_from_entry: the item and its content are read first, then
\* is_redirect is tested; a libzim Entry has no attribute redirect_entry, so
\* redirect_target is ""
ContentExtractor__extract_from_entry(s, entry, format_type, max_content_length) ==
    Let(Log(Log(s, "get_item", entry.archive.file, entry.archive),
            "content", entry.archive.file, entry.archive), LAMBDA s1 :
    Let(ItemBytes(entry.path), LAMBDA content_bytes :
    IF entry.is_redirect
    THEN Return(s1, [path |-> entry.path, title |-> entry.title,
                     content |-> RedirectContent,
                     content_type |-> "redirect", content_length |-> 0,
                     preview |-> RedirectPreview, is_redirect |-> TRUE,
                     redirect_target |-> << >>, metadata |-> EmptyDict])
    ELSE
    Let(ContentExtractor__decode_content(content_bytes), LAMBDA content :
    Let(ContentExtractor__format_content(content, format_type), LAMBDA formatted_content :
    Return(s1, [path |-> entry.path, title |-> entry.title,
                content |-> IF Len(formatted_content) > max_content_length
                            THEN truncate_text(formatted_content, max_content_length,
                                               TruncateSuffix)
                            ELSE formatted_content,
                content_type |-> format_type,
                content_length |-> Len(content_bytes),
                preview |-> extract_text_preview(formatted_content, PreviewLength),
                is_redirect |-> FALSE, redirect_target |-> << >>,
                metadata |-> ContentExtractor__extract_metadata(content)])
    ))))

ContentExtractor_extract_entry_content(s, zim_file, entry_path, format_type, max_content_length) ==
    Let(ZimManager_get_entry_by_path(s, zim_file, entry_path), LAMBDA e :
    IF e.exc # "none" THEN Raise(e.s, e.exc)
    ELSE IF e.ret = None THEN Return(e.s, None)
    ELSE
    Let(ContentExtractor__extract_from_entry(e.s, e.ret[1], format_type,
                                             max_content_length), LAMBDA x :
    Return(x.s, Some(x.ret))
    ))

ExtractFiles == {SA, SD, SEscape}
ExtractPaths == {"A1", "A2", "A3", "D1", "D2"}
FormatTypes == {"text", "html", "raw", "markdown"}

ExtractInit ==
    /\ CacheIdle
    /\ PathIdle
    /\ WorldInit
    /\ archive_cache \in {LRUCache_init(c) : c \in 1..MaxCap}
    /\ file_info_cache = EmptyDict
    /\ available_files = None
    /\ searcher_cache = EmptyDict
    /\ search_cache = LRUCache_init(MaxCap)
    /\ call = NoCall
    /\ memo = EmptyDict
    /\ page = NoPage
    /\ browse = NoBrowse
    /\ DiscoveryIdle
    /\ callers = NoCallers

ExtractEntryContent(zim_file, entry_path, format_type, max_content_length) ==
    \E r \in {ContentExtractor_extract_entry_content(Fields, zim_file, entry_path,
                                                     format_type, max_content_length)} :
        Finish("extract_entry_content",
               <<zim_file, entry_path, format_type, max_content_length>>, r)

ExtractNext ==
    \/ \E zim_file \in ExtractFiles, entry_path \in ExtractPaths,
          format_type \in FormatTypes, max_content_length \in 0..MaxContent :
            ExtractEntryContent(zim_file, entry_path, format_type, max_content_length)
    \/ ManagerClearCaches

SpecExtract == ExtractInit /\ [][ExtractNext]_vars

\* the call extracted an entry that is a redirect
ExtractedRedirect ==
    /\ call.name = "extract_entry_content"
    /\ call.exc = "none"
    /\ call.ret # None
    /\ call.args[2] \in DOMAIN RedirectOf

\* C30: when the resolved entry is a redirect, extraction returns a payload
\* with content_type "redirect", empty content and is_redirect true, and
\* neither the item nor its content is read for it.
C30_RedirectBeforeContent ==
    ExtractedRedirect =>
        /\ call.ret[1].content_type = "redirect"
        /\ call.ret[1].is_redirect
        /\ call.ret[1].content = << >>
        /\ \A i \in DOMAIN call.log : call.log[i].ev \notin {"get_item", "content"}

----------------------------------------------------------------------------
(* utils.py and content_extractor.py: the functions on text.  Each call is  *)
(* drawn with its arguments by Init and then made.                          *)

MaxText == 4       \* texts of 0..MaxText characters, lengths 0..MaxText + 1

RECURSIVE SeqsUpTo(_, _)
SeqsUpTo(S, n) ==
    IF n = 0 THEN {<< >>}
    ELSE SeqsUpTo(S, n - 1)
            \cup {Append(t, c) : t \in {u \in SeqsUpTo(S, n - 1) : Len(u) = n - 1}, c \in S}

Terminators == {".", "!", "?"}

\* re.split(r'[.!?]+', content)
RECURSIVE SplitSentences(_, _)
SplitSentences(str, sentence) ==
    IF str = << >> THEN <<sentence>>
    ELSE IF Head(str) \in Terminators
    THEN IF Len(str) >= 2 /\ str[2] \in Terminators
         THEN SplitSentences(Tail(str), sentence)
         ELSE <<sentence>> \o SplitSentences(Tail(str), << >>)
    ELSE SplitSentences(Tail(str), Append(sentence, Head(str)))

\* the loop of get_content_summary over sentences
RECURSIVE SummaryLoop(_, _, _)
SummaryLoop(sentences, summary, max_length) ==
    IF sentences = << >> THEN summary
    ELSE
    Let(StrStrip(Head(sentences)), LAMBDA sentence :
    IF sentence = << >> THEN SummaryLoop(Tail(sentences), summary, max_length)
    ELSE IF Len(summary \o sentence) > max_length THEN summary
    ELSE SummaryLoop(Tail(sentences), summary \o sentence \o <<".", " ">>, max_length))

ContentExtractor_get_content_summary(content, max_length) ==
    Let(IF (\E i \in DOMAIN content : content[i] = "<")
            /\ (\E i \in DOMAIN content : content[i] = ">")
        THEN clean_html_content(content) ELSE content, LAMBDA text :
    StrStrip(SummaryLoop(SplitSentences(text, << >>), << >>, max_length)))

Texts == SeqsUpTo({"a", "b"}, MaxText)
Suffixes == {TruncateSuffix, <<".">>, << >>}
Markups == SeqsUpTo({"a", "<", ">"}, MaxText - 1)
Proses == SeqsUpTo({"a", ".", " "}, MaxText)

\* a call that is about to be made
Pending(name, args) ==
    [name |-> name, args |-> args, ret |-> None, exc |-> "pending", log |-> << >>]

TextInit ==
    /\ CacheIdle
    /\ PathIdle
    /\ WorldInit
    /\ archive_cache = LRUCache_init(0)
    /\ file_info_cache = EmptyDict
    /\ available_files = None
    /\ searcher_cache = EmptyDict
    /\ search_cache = LRUCache_init(0)
    /\ memo = EmptyDict
    /\ page = NoPage
    /\ browse = NoBrowse
    /\ DiscoveryIdle
    /\ callers = NoCallers
    /\ call \in {Pending("truncate_text", <<text, max_length, suffix>>) :
                    text \in Texts, max_length \in 0..(MaxText + 1), suffix \in Suffixes}
                \cup {Pending("extract_text_preview", <<content, max_length>>) :
                    content \in Markups, max_length \in 0..(MaxText + 1)}
                \cup {Pending("get_content_summary", <<content, max_length>>) :
                    content \in Proses \cup Markups, max_length \in 0..(MaxText + 1)}

\* the pending call returns ret
Returns(ret) ==
    /\ call' = [call EXCEPT !.ret = ret, !.exc = "none"]
    /\ UNCHANGED <<archive_cache, file_info_cache, available_files, searcher_cache,
                   search_cache, memo, page>>
    /\ UNCHANGED <<cacheVars, pathVars, worldVars, discoveryVars, callers, browse>>

TruncateText ==
    /\ call.exc = "pending"
    /\ call.name = "truncate_text"
    /\ Returns(truncate_text(call.args[1], call.args[2], call.args[3]))

ExtractTextPreview ==
    /\ call.exc = "pending"
    /\ call.name = "extract_text_preview"
    /\ Returns(extract_text_preview(call.args[1], call.args[2]))

GetContentSummary ==
    /\ call.exc = "pending"
    /\ call.name = "get_content_summary"
    /\ Returns(ContentExtractor_get_content_summary(call.args[1], call.args[2]))

TextNext ==
    \/ TruncateText
    \/ ExtractTextPreview
    \/ GetContentSummary

SpecText == TextInit /\ [][TextNext]_vars

\* C36: truncate_text(text, max_length, suffix) returns text unchanged when
\* len(text) <= max_length, and otherwise a string of at most max_length
\* characters, for every max_length >= 0, also one below the suffix length;
\* so does extract_text_preview, which ends with truncate_text.
C36_TruncateWithinLength ==
    /\ (call.name = "truncate_text" /\ call.exc = "none") =>
            IF Len(call.args[1]) <= call.args[2] THEN call.ret = call.args[1]
            ELSE Len(call.ret) <= call.args[2]
    /\ (call.name = "extract_text_preview" /\ call.exc = "none") =>
            Len(call.ret) <= call.args[2]

\* the first sentence of content that is not blank, << >> if there is none
FirstSentence(content) ==
    Let(SplitSentences(content, << >>), LAMBDA sentences :
    IF \A i \in DOMAIN sentences : StrStrip(sentences[i]) = << >> THEN << >>
    ELSE StrStrip(sentences[CHOOSE i \in DOMAIN sentences :
                    /\ StrStrip(sentences[i]) # << >>
                    /\ \A j \in 1..(i - 1) : StrStrip(sentences[j]) = << >>]))

\* C32: the summary get_content_summary(content, max_length) returns is
\* never longer than max_length, and it is empty when the first sentence
\* that is not blank is alone longer than max_length.
C32_SummaryWithinLength ==
    (call.name = "get_content_summary" /\ call.exc = "none"
        /\ call.args[1] \in Proses) =>
        /\ Len(call.ret) <= call.args[2]
        /\ Len(FirstSentence(call.args[1])) > call.args[2] => call.ret = << >>

----------------------------------------------------------------------------
(* Truncation in extract_entry_content.                                     *)

\* the formatted content of the entry the call extracted, before truncation
FormattedOf(entry_path, format_type) ==
    ContentExtractor__format_content(
        ContentExtractor__decode_content(ItemBytes(entry_path)), format_type)

\* the call extracted an entry whose formatted content is longer than
\* max_content_length
ExtractedLong ==
    /\ call.name = "extract_entry_content"
    /\ call.exc = "none"
    /\ call.ret # None
    /\ ~call.ret[1].is_redirect
    /\ Len(FormattedOf(call.args[2], call.args[3])) > call.args[4]

\* C31: for formatted content longer than max_content_length, the content
\* extract returns has exactly max_content_length characters plus those of
\* the truncation marker, and without the marker it is the first
\* max_content_length characters of the untruncated formatted content.
C31_TruncatedPrefix ==
    ExtractedLong =>
        /\ Len(call.ret[1].content) = call.args[4] + Len(TruncateSuffix)
        /\ SubSeq(call.ret[1].content, 1, call.args[4])
                = SubSeq(FormattedOf(call.args[2], call.args[3]), 1, call.args[4])

----------------------------------------------------------------------------
(* A put of a key that is cached. *)

\* C33: a put of a key that is already cached replaces its value, makes
\* the key the most recently used, evicts nothing, and leaves the size,
\* every other entry and the order of the other keys unchanged, also when
\* the cache is full.
C33_UpdateStep ==
    (op'.name = "put" /\ op'.key \in DOMAIN lru.cache)
    => /\ op'.exc = "none"
       /\ lru'.cache[op'.key] = op'.value
       /\ lru'.access_order[Len(lru'.access_order)] = op'.key
       /\ op'.evicted = {}
       /\ LRUCache_size(lru') = LRUCache_size(lru)
       /\ DOMAIN lru'.cache = DOMAIN lru.cache
       /\ \A k \in (DOMAIN lru.cache) \ {op'.key} : lru'.cache[k] = lru.cache[k]
       /\ ListRemove(lru'.access_order, op'.key) = ListRemove(lru.access_order, op'.key)
       /\ lru'.max_size = lru.max_size

C33_PutUpdates == [][C33_UpdateStep]_vars

\* a put has replaced the value of the least recently used key of a full
\* cache that holds two keys or more
C33_Witness ==
    /\ op.name = "put" /\ op.update /\ op.exc = "none"
    /\ lru.max_size >= 2
    /\ LRUCache_size(lru) = lru.max_size
    /\ lru.cache[op.key] = op.value
    /\ \A k \in (DOMAIN lru.cache) \ {op.key} : stamp[k] < stamp[op.key]
    /\ op.prev.name = "put" /\ op.prev.key # op.key

----------------------------------------------------------------------------
(* file_discovery.py: discover_files and get_directory_stats, with the     *)
(* clock they read.                                                         *)

CacheDuration == 300   \* FileDiscovery._scan_cache_duration, in seconds
MaxTime == 700         \* the clock runs from 1 to MaxTime

\* scan_directory.rglob("*.zim"): the files of the root first, then those of
\* its directories; a link to a directory is not entered
RGlobOrders ==
    {<<<<"srv", "a.zim">>, <<"srv", "b.zim">>, <<"srv", "c.zim">>, <<"srv", "zim", "a.zim">>>>,
     <<<<"srv", "c.zim">>, <<"srv", "a.zim">>, <<"srv", "b.zim">>, <<"srv", "zim", "a.zim">>>>}

\* stat.st_size of each file
FileSize ==
    [f \in RegularFiles |-> IF f = <<"srv", "a.zim">> THEN 3 ELSE Len(f)]

\* _get_file_info; the times and the formatted fields are left out
FileDiscovery__get_file_info(path) ==
    [filename |-> PathName(path),
     filepath |-> path,
     size |-> FileSize[path.parts],
     is_readable |-> TRUE,
     relative_path |-> SubSeq(path.parts, Len(zim_files_directory.parts) + 1,
                              Len(path.parts))]

\* the key of files.sort: x['filename']
FileNameBefore(f1, f2) == TokenRank[f1.filename] < TokenRank[f2.filename]

\* _get_cached_results: a placeholder that returns []
FileDiscovery__get_cached_results(directory) == << >>

\* discover_files(directory=None, force_refresh) run at current_time with
\* the fields self; the result holds the new fields and the list
FileDiscovery_discover_files(self, force_refresh, current_time, rglob) ==
    IF /\ ~force_refresh
       /\ self.last_scan_time # None /\ self.last_scan_time[1] # 0
       /\ current_time - self.last_scan_time[1] < CacheDuration
    THEN [self |-> self, ret |-> FileDiscovery__get_cached_results(zim_files_directory)]
    ELSE IF ~PathExists(zim_files_directory) THEN [self |-> self, ret |-> << >>]
    ELSE [self |-> [self EXCEPT !.last_scan_time = Some(current_time)],
          ret |-> SortBy(FileNameBefore,
                         [i \in DOMAIN rglob |->
                            FileDiscovery__get_file_info(MkPath(TRUE, rglob[i]))])]

RECURSIVE SumSizes(_)
SumSizes(files) ==
    IF files = << >> THEN 0 ELSE Head(files).size + SumSizes(Tail(files))

\* get_directory_stats; the formatted fields are left out
FileDiscovery_get_directory_stats(self, current_time, rglob) ==
    IF ~PathExists(zim_files_directory)
    THEN [self |-> self, ret |-> [directory_exists |-> FALSE]]
    ELSE
    Let(FileDiscovery_discover_files(self, FALSE, current_time, rglob), LAMBDA d :
    [self |-> d.self,
     ret |-> [directory_exists |-> TRUE,
              directory_path |-> zim_files_directory,
              total_files |-> Len(d.ret),
              total_size |-> SumSizes(d.ret),
              last_scan_time |-> d.self.last_scan_time]])

DiscoveryFields == [last_scan_time |-> last_scan_time]

DiscoveryInit ==
    /\ CacheIdle
    /\ PathIdle
    /\ WorldInit
    /\ archive_cache = LRUCache_init(0)
    /\ file_info_cache = EmptyDict
    /\ available_files = None
    /\ searcher_cache = EmptyDict
    /\ search_cache = LRUCache_init(0)
    /\ call = NoCall
    /\ memo = EmptyDict
    /\ page = NoPage
    /\ browse = NoBrowse
    /\ callers = NoCallers
    /\ last_scan_time = None
    /\ now = 1
    /\ listing \in RGlobOrders

\* the call named `name` ended at the time `now` as r says
DiscoveryEnds(name, args, r) ==
    /\ last_scan_time' = r.self.last_scan_time
    /\ call' = [name |-> name, args |-> args, ret |-> r.ret, exc |-> "none",
                log |-> << >>, at |-> now]
    /\ UNCHANGED <<now, listing>>
    /\ UNCHANGED <<archive_cache, file_info_cache, available_files, searcher_cache,
                   search_cache, memo, page>>
    /\ UNCHANGED <<cacheVars, pathVars, worldVars, callers, browse>>

DiscoverFiles(force_refresh) ==
    \E r \in {FileDiscovery_discover_files(DiscoveryFields, force_refresh, now, listing)} :
        DiscoveryEnds("discover_files", <<force_refresh>>, r)

GetDirectoryStats ==
    \E r \in {FileDiscovery_get_directory_stats(DiscoveryFields, now, listing)} :
        DiscoveryEnds("get_directory_stats", << >>, r)

\* d seconds pass
Tick(d) ==
    /\ now + d <= MaxTime
    /\ now' = now + d
    /\ UNCHANGED <<last_scan_time, listing>>
    /\ UNCHANGED <<cacheVars, pathVars, sysVars, worldVars, callers, browse>>

DiscoveryNext ==
    \/ \E force_refresh \in BOOLEAN : DiscoverFiles(force_refresh)
    \/ GetDirectoryStats
    \/ \E d \in {150, CacheDuration - 1, CacheDuration} : Tick(d)

SpecDiscovery == DiscoveryInit /\ [][DiscoveryNext]_vars

\* C35: of two consecutive discover_files calls without force_refresh on
\* an unchanged directory, the second made less than 300 seconds after the
\* first, the second returns the list of files the first returned.
C35_Step ==
    (/\ call.name = "discover_files" /\ call.args = <<FALSE>>
     /\ call'.name = "discover_files" /\ call'.args = <<FALSE>>
     /\ now' = now
     /\ call'.at - call.at < CacheDuration)
    => call'.ret = call.ret

C35_DiscoverStable == [][C35_Step]_vars

----------------------------------------------------------------------------
(* zim_manager.py: get_archive run by two callers at the same time.  The   *)
(* calls of the cache are taken as atomic; between them the callers        *)
(* interleave freely, as nothing in get_archive holds a lock.              *)

Callers == {1, 2}
RaceNames == {SA, SameA, SB}

Waiting == [pc |-> "start", filename |-> << >>, cache_key |-> << >>,
            archive |-> NoHandle, ret |-> None]

\* the handles some caller holds in a local or was given
HeldByCallers == {callers[t].archive : t \in Callers} \ {NoHandle}

\* libzim.reader.Archive(str(filepath)): a handle that is no other's
RaceNewHandle(place) ==
    [file |-> place,
     id |-> CHOOSE i \in 0..(Cardinality(Retained(Fields) \cup HeldByCallers)) :
              /\ [file |-> place, id |-> i] \notin Retained(Fields) \cup HeldByCallers
              /\ \A j \in 0..(i - 1) :
                    [file |-> place, id |-> j] \in Retained(Fields) \cup HeldByCallers]

RaceInit ==
    /\ CacheIdle
    /\ PathIdle
    /\ WorldInit
    /\ archive_cache \in {LRUCache_init(c) : c \in 1..MaxCap}
    /\ file_info_cache = EmptyDict
    /\ available_files = None
    /\ searcher_cache = EmptyDict
    /\ search_cache = LRUCache_init(0)
    /\ call = [NoCall EXCEPT !.name = "get_archive"]
    /\ memo = EmptyDict
    /\ page = NoPage
    /\ browse = NoBrowse
    /\ DiscoveryIdle
    /\ callers = [t \in Callers |-> Waiting]

\* what a step of a caller leaves alone
RaceFrame ==
    /\ UNCHANGED <<file_info_cache, available_files, searcher_cache, search_cache,
                   memo, page>>
    /\ UNCHANGED <<cacheVars, pathVars, worldVars, discoveryVars, browse>>

\* filepath = validate_zim_file_path(...); if not filepath.exists(): return None
RaceBegin(t, filename) ==
    /\ callers[t].pc = "start"
    /\ \E v \in {validate_zim_file_path(PathOfStr(filename), zim_files_directory)} :
        callers' = [callers EXCEPT ![t] =
            IF v.exc # "none" \/ ~PathExists(v.ret[1])
            THEN [@ EXCEPT !.pc = "done", !.filename = filename]
            ELSE [@ EXCEPT !.pc = "check", !.filename = filename,
                           !.cache_key = v.ret[1].parts]]
    /\ UNCHANGED <<archive_cache, call>>
    /\ RaceFrame

\* cached_archive = self.archive_cache.get(cache_key)
RaceCheck(t) ==
    /\ callers[t].pc = "check"
    /\ \E g \in {LRUCache_get(archive_cache, callers[t].cache_key)} :
        /\ archive_cache' = g.self
        /\ callers' = [callers EXCEPT ![t] =
                IF g.ret # None THEN [@ EXCEPT !.pc = "done", !.ret = g.ret]
                ELSE [@ EXCEPT !.pc = "open"]]
    /\ UNCHANGED call
    /\ RaceFrame

\* archive = libzim.reader.Archive(str(filepath))
RaceOpen(t) ==
    /\ callers[t].pc = "open"
    /\ \E archive \in {RaceNewHandle(callers[t].cache_key)} :
        /\ callers' = [callers EXCEPT ![t] = [@ EXCEPT !.pc = "put", !.archive = archive]]
        /\ call' = [call EXCEPT !.log =
                        Append(@, Event("open", callers[t].cache_key, archive))]
    /\ UNCHANGED archive_cache
    /\ RaceFrame

\* self.archive_cache.put(cache_key, archive); return archive
RacePut(t) ==
    /\ callers[t].pc = "put"
    /\ \E p \in {ArchiveCachePut([Fields EXCEPT !.log = call.log],
                                 callers[t].cache_key, callers[t].archive)} :
        /\ archive_cache' = p.s.archive_cache
        /\ call' = [call EXCEPT !.log = p.s.log]
        /\ callers' = [callers EXCEPT ![t] =
                [@ EXCEPT !.pc = "done", !.ret = Some(callers[t].archive)]]
    /\ RaceFrame

RaceNext ==
    \E t \in Callers :
        \/ \E filename \in RaceNames : RaceBegin(t, filename)
        \/ RaceCheck(t)
        \/ RaceOpen(t)
        \/ RacePut(t)

SpecRace == RaceInit /\ [][RaceNext]_vars

\* the handles opened on place so far
OpenedOn(place) ==
    {call.log[i].h : i \in {j \in DOMAIN call.log :
                                call.log[j].ev = "open" /\ call.log[j].place = place}}

\* C34: when two callers run get_archive for the same file that is not
\* cached, the archive is opened at most once: no interleaving opens two
\* handles for one canonical path, one of which takes the other's place in
\* the cache while its caller still holds it.
C34_OpenedOnce ==
    \A t \in Callers, u \in Callers :
        (t # u /\ callers[t].cache_key = callers[u].cache_key
            /\ callers[t].cache_key # << >>)
        => /\ Cardinality(OpenedOn(callers[t].cache_key)) <= 1
           /\ (callers[t].pc = "done" /\ callers[u].pc = "done")
                => callers[t].ret = callers[u].ret

============================================================================
